---- MODULE Spec2Model ----
(***************************************************************************)
(* Model of ambari_server/serverConfiguration.py: the password-alias /     *)
(* master-key workflow (decrypt_password_for_alias, get_original_master_key,*)
(* read_passwd_for_alias, save_passwd_for_alias) and the database type      *)
(* resolver (ServerDatabases.match, get_db_type).                           *)
(*                                                                         *)
(* Python strings are sequences of one-character strings, so that lower(),  *)
(* substring tests and the alias regular expression are computed.  Python   *)
(* values of mixed type (None, str, int) are tagged records.               *)
(***************************************************************************)
EXTENDS Integers, Sequences, FiniteSets, TLC

VARIABLES
  properties,      \* the Properties object handed to the operation: key -> value
  masterKeyFile,   \* what search_file("master", keyLocation) finds: None or a path
  jdkPath,         \* what find_jdk() finds: None or a path
  tmpFile,         \* <tmpdir>/ambari.passwd: None (absent) or [content, mode]
  call,            \* the top-level call in progress: [name, alias, passwd, masterKey]
  pc,              \* position of the control flow
  isSecure,        \* local of decrypt_password_for_alias
  masterKey,       \* local masterKey of decrypt_password_for_alias / get_original_master_key
  alias,           \* local alias of get_original_master_key
  password,        \* local password of get_original_master_key
  rd,              \* frame of read_passwd_for_alias / save_passwd_for_alias
  result,          \* value returned by the top-level call
  exitStatus,      \* None, or the status sys.exit was called with
  events,          \* history: observable effects in program order
  dbOrder,         \* iteration order of ServerDatabases.__dict__
  confFile,        \* what search_file("ambari.properties", conf dir) finds:
                   \* None or [t, readable, content]
  tmpDir           \* the files of tempfile.gettempdir(): name -> content

vars == <<properties, masterKeyFile, jdkPath, tmpFile, call, pc, isSecure,
          masterKey, alias, password, rd, result, exitStatus, events, dbOrder,
          confFile, tmpDir>>

-----------------------------------------------------------------------------
(* Python values *)

None == [t |-> "None"]
PyStr(s) == [t |-> "str", s |-> s]
PyInt(n) == [t |-> "int", n |-> n]
PyBool(b) == [t |-> "bool", b |-> b]

\* an empty directory, an empty dict
NoFiles == [n \in {} |-> <<>>]

\* Python truth value of None, a str or an int
Truthy(v) ==
  CASE v.t = "None" -> FALSE
    [] v.t = "str"  -> v.s # <<>>
    [] v.t = "int"  -> v.n # 0

IsStr(v) == v.t = "str"

-----------------------------------------------------------------------------
(* characters *)

LowerLetters == {"a","b","c","d","e","f","g","h","i","j","k","l","m",
                 "n","o","p","q","r","s","t","u","v","w","x","y","z"}
UpperLetters == {"A","B","C","D","E","F","G","H","I","J","K","L","M",
                 "N","O","P","Q","R","S","T","U","V","W","X","Y","Z"}
Digits == {"0","1","2","3","4","5","6","7","8","9"}

UpperSeq == <<"A","B","C","D","E","F","G","H","I","J","K","L","M",
              "N","O","P","Q","R","S","T","U","V","W","X","Y","Z">>
LowerSeq == <<"a","b","c","d","e","f","g","h","i","j","k","l","m",
              "n","o","p","q","r","s","t","u","v","w","x","y","z">>

\* str.lower() on one character
LowerChar(c) ==
  IF c \in UpperLetters
  THEN LowerSeq[CHOOSE i \in 1..Len(UpperSeq) : UpperSeq[i] = c]
  ELSE c

\* str.lower()
Lower(s) == [i \in 1..Len(s) |-> LowerChar(s[i])]

\* the Python test  `needle in haystack`  on two strings
Contains(haystack, needle) ==
  \E i \in 0..(Len(haystack) - Len(needle)) :
    \A j \in 1..Len(needle) : haystack[i + j] = needle[j]

-----------------------------------------------------------------------------
(* names and literals of the module *)

SECURITY_IS_ENCRYPTION_ENABLED == "security.passwords.encryption.enabled"
JDBC_PASSWORD_PROPERTY == "server.jdbc.user.passwd"
LDAP_MGR_PASSWORD_PROPERTY == "authentication.ldap.managerPassword"
SSL_TRUSTSTORE_PASSWORD_PROPERTY == "ssl.trustStore.password"
JDBC_DATABASE_PROPERTY == "server.jdbc.database"
JDBC_URL_PROPERTY == "server.jdbc.url"
PERSISTENCE_TYPE_PROPERTY == "server.persistence.type"

\* "ambari.db.password"
JDBC_RCA_PASSWORD_ALIAS ==
  <<"a","m","b","a","r","i",".","d","b",".","p","a","s","s","w","o","r","d">>
\* "ambari.ldap.manager.password"
LDAP_MGR_PASSWORD_ALIAS ==
  <<"a","m","b","a","r","i",".","l","d","a","p",".","m","a","n","a","g","e","r",
    ".","p","a","s","s","w","o","r","d">>
\* "ambari.ssl.trustStore.password"
SSL_TRUSTSTORE_PASSWORD_ALIAS ==
  <<"a","m","b","a","r","i",".","s","s","l",".","t","r","u","s","t","S","t","o",
    "r","e",".","p","a","s","s","w","o","r","d">>

\* the literal "None" put on the command line for an absent master key
NoneLiteral == <<"N","o","n","e">>
\* the literal 'true' get_is_secure compares with
TrueLiteral == <<"t","r","u","e">>
\* "${alias="
AliasPrefix == <<"$","{","a","l","i","a","s","=">>

\* stat.S_IREAD | stat.S_IWRITE
OwnerReadWrite == {"S_IREAD", "S_IWRITE"}
\* the mode a file gets from open(path, 'w+') under a usual umask
DefaultMode == {"S_IREAD", "S_IWRITE", "S_IRGRP", "S_IROTH"}

-----------------------------------------------------------------------------
(* SecretAliasCodec *)

\* the character class [\w\.]
WordOrDot(c) == c \in LowerLetters \cup UpperLetters \cup Digits \cup {"_", "."}

\* the match anchored at both ends, as re.compile("...$") would be
is_alias_string_FullMatch(passwdStr) ==
  /\ Len(passwdStr) >= Len(AliasPrefix) + 2
  /\ SubSeq(passwdStr, 1, Len(AliasPrefix)) = AliasPrefix
  /\ \A i \in (Len(AliasPrefix) + 1)..(Len(passwdStr) - 1) : WordOrDot(passwdStr[i])
  /\ passwdStr[Len(passwdStr)] = "}"

\* re.compile("\$\{alias=[\w\.]+\}").match(passwdStr) is not None
is_alias_string(passwdStr) ==
  \E n \in 1..Len(passwdStr) :
    /\ Len(passwdStr) >= Len(AliasPrefix) + n + 1
    /\ SubSeq(passwdStr, 1, Len(AliasPrefix)) = AliasPrefix
    /\ \A i \in 1..n : WordOrDot(passwdStr[Len(AliasPrefix) + i])
    /\ passwdStr[Len(AliasPrefix) + n + 1] = "}"

\* "${alias=" + alias + "}"
get_alias_string(a) == AliasPrefix \o a \o <<"}">>

\* aliasStr[8:] : the closing brace kept
get_alias_from_alias_string_KeepBrace(aliasStr) ==
  IF Len(aliasStr) < 9 THEN <<>> ELSE SubSeq(aliasStr, 9, Len(aliasStr))

\* aliasStr[8:-1]
get_alias_from_alias_string(aliasStr) ==
  IF Len(aliasStr) - 1 < 9 THEN <<>> ELSE SubSeq(aliasStr, 9, Len(aliasStr) - 1)

-----------------------------------------------------------------------------
(* bounds and input domains *)

\* how many times the master-key prompt may be shown in one run
MaxPrompts == 2

\* master keys the user may type at the prompt: "k1", "k2"
PromptKeys == {<<"k","1">>, <<"k","2">>}

\* what get_validated_string_input(prompt, "", ".*", "", True, False) returns:
\* a typed key; the last argument refuses a blank answer
PromptInputs == {PyStr(k) : k \in PromptKeys}

\* exit codes of the credential-provider subprocess
RetCodes == {0, 1}

\* what the GET subprocess may leave in the temp file: nothing, or "pw"
Contents == {<<>>, <<"p","w">>}

\* values of security.passwords.encryption.enabled:
\* absent, "", "true", "tRuE", "false"
EncValues == {None, PyStr(<<>>), PyStr(<<"t","r","u","e">>),
              PyStr(<<"t","R","u","E">>), PyStr(<<"f","a","l","s","e">>)}

\* "${alias=ambari.db.password}", and the same followed by "x"
AliasValue == PyStr(get_alias_string(JDBC_RCA_PASSWORD_ALIAS))
AliasValueTrailing == PyStr(get_alias_string(JDBC_RCA_PASSWORD_ALIAS) \o <<"x">>)
\* "${alias=}" is no alias string; "pw" is a clear-text password
EmptyAliasValue == PyStr(get_alias_string(<<>>))
ClearValue == PyStr(<<"p","w">>)

JdbcPwValues == {None, ClearValue, EmptyAliasValue, AliasValue}
LdapPwValues == {None, AliasValueTrailing}
SslPwValues == {ClearValue, AliasValue}

\* alias arguments of the top-level calls: None, "", "ambari.db.password", "my.alias"
AliasArgs == {None, PyStr(<<>>), PyStr(JDBC_RCA_PASSWORD_ALIAS),
              PyStr(<<"m","y",".","a","l","i","a","s">>)}
\* password arguments of save_passwd_for_alias
PasswdArgs == {None, PyStr(<<>>), PyStr(<<"p","w">>)}
\* (alias, password) arguments of get_encrypted_password: a password to store
\* under "my.alias", an empty alias, an empty password, and both absent
EncryptArgs ==
  { <<PyStr(<<"m","y",".","a","l","i","a","s">>), PyStr(<<"p","w">>)>>,
    <<PyStr(<<>>), PyStr(<<"p","w">>)>>,
    <<PyStr(<<"m","y",".","a","l","i","a","s">>), PyStr(<<>>)>>,
    <<None, None>> }
\* masterKey arguments of direct calls
MasterKeyArgs == {None, PyStr(<<>>), PyStr(<<"k","1">>)}

\* the path of the master key file and of the JDK, when found
KeyFilePath == PyStr(<<"m","a","s","t","e","r">>)
JdkPathFound == PyStr(<<"j","d","k">>)

-----------------------------------------------------------------------------
(* MasterKeyManager: pure parts *)

\* properties.get_property(key) / properties[key]: None stands for an absent key
get_property(props, key) == IF key \in DOMAIN props THEN props[key] ELSE None

\* get_is_secure without the comparison with 'true': any non-empty value enables
get_is_secure_AnyValue(props) ==
  Truthy(get_property(props, SECURITY_IS_ENCRYPTION_ENABLED))

\* get_is_secure(properties)
get_is_secure(props) ==
  LET v == get_property(props, SECURITY_IS_ENCRYPTION_ENABLED)
  IN  Truthy(v) /\ Lower(v.s) = TrueLiteral

\* `property and is_alias_string(property)` in get_original_master_key
HoldsAlias(props, key) ==
  LET property == get_property(props, key)
  IN  Truthy(property) /\ is_alias_string(property.s)

\* get_original_master_key: "Find an alias that exists"
FindAlias(props) ==
  IF HoldsAlias(props, JDBC_PASSWORD_PROPERTY) THEN PyStr(JDBC_RCA_PASSWORD_ALIAS)
  ELSE IF HoldsAlias(props, LDAP_MGR_PASSWORD_PROPERTY) THEN PyStr(LDAP_MGR_PASSWORD_ALIAS)
  ELSE IF HoldsAlias(props, SSL_TRUSTSTORE_PASSWORD_PROPERTY)
       THEN PyStr(SSL_TRUSTSTORE_PASSWORD_ALIAS)
  ELSE None

\* get_original_master_key: `if alias and masterKey:` -- is the candidate validated?
NeedsValidation(a, key) == Truthy(a) /\ Truthy(key)

\* get_original_master_key: `if not password: ... continue` -- is the candidate rejected?
Rejected(pw) == ~Truthy(pw)

-----------------------------------------------------------------------------
(* CredentialProviderBridge: pure parts *)

\* the master key dropped: "None" is passed whatever the key is
MasterKeyArg_AlwaysNone(key) == PyStr(NoneLiteral)

\* `if masterKey is None or masterKey == "": masterKey = "None"`
MasterKeyArg(key) ==
  IF key = None \/ key = PyStr(<<>>) THEN PyStr(NoneLiteral) ELSE key

\* the temp file read whatever the exit code was
ReadPasswd_AlwaysFile(retcode, fileContent) == PyStr(fileContent)

\* read_passwd_for_alias: the value returned after the subprocess has run
ReadPasswd(retcode, fileContent) ==
  IF retcode # 0 THEN PyStr(<<>>) ELSE PyStr(fileContent)

\* `or` in place of `and`
SaveAccepts_Either(a, passwd) == Truthy(a) \/ Truthy(passwd)

\* save_passwd_for_alias: `if alias and passwd:`
SaveAccepts(a, passwd) == Truthy(a) /\ Truthy(passwd)

-----------------------------------------------------------------------------
(* state of the credential workflow *)

NoFrame == [alias |-> None, masterKey |-> None, caller |-> "", retcode |-> None]
NoCall == [name |-> "", alias |-> None, passwd |-> None, masterKey |-> None]

\* one observable effect: e is "search_file", "prompt", "accept", "reject",
\* "tmp_create", "GET", "tmp_remove", "PUT" or "exit"
Event(e, a, arg, key, caller, rc) ==
  [e |-> e, alias |-> a, arg |-> arg, key |-> key, caller |-> caller, rc |-> rc]

Init ==
  /\ \E enc \in EncValues, j \in JdbcPwValues, l \in LdapPwValues, s \in SslPwValues :
       properties = (SECURITY_IS_ENCRYPTION_ENABLED :> enc)
                    @@ (JDBC_PASSWORD_PROPERTY :> j)
                    @@ (LDAP_MGR_PASSWORD_PROPERTY :> l)
                    @@ (SSL_TRUSTSTORE_PASSWORD_PROPERTY :> s)
  /\ masterKeyFile \in {None, KeyFilePath}
  /\ jdkPath \in {None, JdkPathFound}
  /\ tmpFile \in {None, [content |-> <<"o","l","d">>, mode |-> DefaultMode]}
  /\ call = NoCall
  /\ pc = "idle"
  /\ isSecure = FALSE
  /\ masterKey = None
  /\ alias = None
  /\ password = None
  /\ rd = NoFrame
  /\ result = None
  /\ exitStatus = None
  /\ events = <<>>
  /\ dbOrder = <<>>
  /\ confFile = None
  /\ tmpDir = NoFiles

\* the environment and the database registry are not written by the workflow
EnvUnchanged == UNCHANGED <<properties, masterKeyFile, jdkPath, dbOrder, confFile, tmpDir>>

-----------------------------------------------------------------------------
(* the top-level calls *)

CallDecrypt ==
  /\ pc = "idle"
  /\ \E a \in AliasArgs :
       call' = [name |-> "decrypt_password_for_alias", alias |-> a,
                passwd |-> None, masterKey |-> None]
  /\ pc' = "decrypt"
  /\ UNCHANGED <<tmpFile, isSecure, masterKey, alias, password, rd, result,
                 exitStatus, events>>
  /\ EnvUnchanged

CallRead ==
  /\ pc = "idle"
  /\ \E a \in AliasArgs, k \in MasterKeyArgs :
       /\ call' = [name |-> "read_passwd_for_alias", alias |-> a,
                   passwd |-> None, masterKey |-> k]
       /\ rd' = [alias |-> a, masterKey |-> k, caller |-> "top", retcode |-> None]
  /\ pc' = "read"
  /\ UNCHANGED <<tmpFile, isSecure, masterKey, alias, password, result,
                 exitStatus, events>>
  /\ EnvUnchanged

CallSave ==
  /\ pc = "idle"
  /\ \E a \in AliasArgs, p \in PasswdArgs, k \in MasterKeyArgs :
       /\ call' = [name |-> "save_passwd_for_alias", alias |-> a,
                   passwd |-> p, masterKey |-> k]
       /\ rd' = [alias |-> a, masterKey |-> k, caller |-> "top", retcode |-> None]
  /\ pc' = "save"
  /\ UNCHANGED <<tmpFile, isSecure, masterKey, alias, password, result,
                 exitStatus, events>>
  /\ EnvUnchanged

CallEncrypt ==
  /\ pc = "idle"
  /\ \E a \in EncryptArgs :
       call' = [name |-> "get_encrypted_password", alias |-> a[1],
                passwd |-> a[2], masterKey |-> None]
  /\ pc' = "encrypt"
  /\ UNCHANGED <<tmpFile, isSecure, masterKey, alias, password, rd, result,
                 exitStatus, events>>
  /\ EnvUnchanged

-----------------------------------------------------------------------------
(* decrypt_password_for_alias *)

\* lines 763-773 up to the first blocking call: encryption disabled returns the
\* alias; a key file found goes to read_passwd_for_alias with masterKey None;
\* otherwise get_original_master_key starts
DecryptStart ==
  /\ pc = "decrypt"
  /\ isSecure' = get_is_secure(properties)
  /\ IF ~isSecure'
     THEN /\ result' = call.alias
          /\ pc' = "done"
          /\ UNCHANGED <<masterKey, rd, events>>
     ELSE /\ events' = Append(events, Event("search_file", None, None, None,
                                            "decrypt_password_for_alias", None))
          /\ masterKey' = None
          /\ IF Truthy(masterKeyFile)
             THEN /\ rd' = [alias |-> call.alias, masterKey |-> None,
                            caller |-> "decrypt_password_for_alias", retcode |-> None]
                  /\ pc' = "read"
             ELSE /\ pc' = "prompt"
                  /\ rd' = rd
          /\ result' = result
  /\ UNCHANGED <<tmpFile, call, alias, password, exitStatus>>
  /\ EnvUnchanged

\* get_original_master_key returned masterKey: line 771
DecryptRead ==
  /\ pc = "key_returned"
  /\ call.name = "decrypt_password_for_alias"
  /\ rd' = [alias |-> call.alias, masterKey |-> masterKey,
            caller |-> "decrypt_password_for_alias", retcode |-> None]
  /\ pc' = "read"
  /\ UNCHANGED <<tmpFile, call, isSecure, masterKey, alias, password, result,
                 exitStatus, events>>
  /\ EnvUnchanged

-----------------------------------------------------------------------------
(* get_original_master_key *)

\* one pass of the loop from the prompt to the validation call: the user types a
\* key, the alias to validate with is looked up, and the candidate is either
\* validated through read_passwd_for_alias or returned unchecked
Prompt ==
  /\ pc = "prompt"
  /\ Len(SelectSeq(events, LAMBDA ev : ev.e = "prompt")) < MaxPrompts
  /\ \E k \in PromptInputs :
       /\ masterKey' = k
       /\ alias' = FindAlias(properties)
       /\ IF NeedsValidation(alias', k)
          THEN /\ rd' = [alias |-> alias', masterKey |-> k,
                         caller |-> "get_original_master_key", retcode |-> None]
               /\ pc' = "read"
               /\ events' = Append(events, Event("prompt", None, None, k,
                                                 "get_original_master_key", None))
          ELSE /\ rd' = rd
               /\ pc' = "key_returned"
               /\ events' = events \o
                    << Event("prompt", None, None, k, "get_original_master_key", None),
                       Event("accept", alias', None, k, "get_original_master_key", None) >>
  /\ UNCHANGED <<tmpFile, call, isSecure, password, result, exitStatus>>
  /\ EnvUnchanged

\* the interrupt reported but the loop not left: the prompt is shown again
PromptInterrupt_LoopGoesOn ==
  /\ pc = "prompt"
  /\ exitStatus = None
  /\ exitStatus' = PyInt(1)
  /\ pc' = "prompt"
  /\ events' = Append(events, Event("exit", None, None, None,
                                    "get_original_master_key", PyInt(1)))
  /\ UNCHANGED <<tmpFile, call, isSecure, masterKey, alias, password, rd, result>>
  /\ EnvUnchanged

\* KeyboardInterrupt at the prompt: sys.exit(1)
PromptInterrupt ==
  /\ pc = "prompt"
  /\ exitStatus' = PyInt(1)
  /\ pc' = "exited"
  /\ events' = Append(events, Event("exit", None, None, None,
                                    "get_original_master_key", PyInt(1)))
  /\ UNCHANGED <<tmpFile, call, isSecure, masterKey, alias, password, rd, result>>
  /\ EnvUnchanged

\* lines 857-863: the validation call has returned into password
CheckKey ==
  /\ pc = "validated"
  /\ IF Rejected(password)
     THEN /\ pc' = "prompt"
          /\ events' = Append(events, Event("reject", alias, None, masterKey,
                                            "get_original_master_key", None))
     ELSE /\ pc' = "key_returned"
          /\ events' = Append(events, Event("accept", alias, None, masterKey,
                                            "get_original_master_key", None))
  /\ UNCHANGED <<tmpFile, call, isSecure, masterKey, alias, password, rd, result,
                 exitStatus>>
  /\ EnvUnchanged

-----------------------------------------------------------------------------
(* read_passwd_for_alias *)

\* lines 740-742: open(tempFilePath, 'w+'), chmod to owner read/write, close
CreateTempFile == [content |-> <<>>, mode |-> OwnerReadWrite]

\* the removal placed in the else branch: skipped on a nonzero exit
RemoveTempFile_OnSuccessOnly(retcode, file) == IF retcode # 0 THEN file ELSE None

\* line 757: os.remove(tempFilePath) leaves no file
RemoveTempFile(retcode, file) == None

\* read_passwd_for_alias returns v to whoever called it
ReadReturn(v) ==
  IF rd.caller = "get_original_master_key"
  THEN /\ password' = v
       /\ pc' = "validated"
       /\ result' = result
  ELSE /\ result' = v
       /\ pc' = "done"
       /\ password' = password

\* lines 727-745: an unreadable alias returns None, no JDK returns 1, otherwise
\* the temp file is created and the master key argument is fixed
ReadStart ==
  /\ pc = "read"
  /\ IF ~Truthy(rd.alias)
     THEN /\ ReadReturn(None)
          /\ UNCHANGED <<tmpFile, rd, events>>
     ELSE IF jdkPath = None
     THEN /\ ReadReturn(PyInt(1))
          /\ UNCHANGED <<tmpFile, rd, events>>
     ELSE /\ tmpFile' = CreateTempFile
          /\ rd' = [rd EXCEPT !.masterKey = MasterKeyArg(rd.masterKey)]
          /\ events' = Append(events, Event("tmp_create", rd.alias, None, None,
                                            rd.caller, None))
          /\ pc' = "read_run"
          /\ UNCHANGED <<password, result>>
  /\ UNCHANGED <<call, isSecure, masterKey, alias, exitStatus>>
  /\ EnvUnchanged

\* line 749: run_os_command(GET alias tempfile masterKey); the subprocess leaves
\* some content in the temp file and exits with some code
RunGet ==
  /\ pc = "read_run"
  /\ \E rc \in RetCodes, c \in Contents :
       /\ tmpFile' = [tmpFile EXCEPT !.content = c]
       /\ rd' = [rd EXCEPT !.retcode = PyInt(rc)]
       /\ events' = Append(events, Event("GET", rd.alias, PyStr(c), rd.masterKey,
                                         rd.caller, PyInt(rc)))
  /\ pc' = "read_finish"
  /\ UNCHANGED <<call, isSecure, masterKey, alias, password, result, exitStatus>>
  /\ EnvUnchanged

\* lines 752-758: pick the value, remove the temp file, return
ReadFinish ==
  /\ pc = "read_finish"
  /\ tmpFile' = RemoveTempFile(rd.retcode.n, tmpFile)
  /\ events' = IF tmpFile' = None
               THEN Append(events, Event("tmp_remove", rd.alias, None, None,
                                         rd.caller, None))
               ELSE events
  /\ ReadReturn(ReadPasswd(rd.retcode.n, tmpFile.content))
  /\ UNCHANGED <<call, isSecure, masterKey, alias, rd, exitStatus>>
  /\ EnvUnchanged

-----------------------------------------------------------------------------
(* save_passwd_for_alias *)

\* save_passwd_for_alias returns v to whoever called it: to
\* get_encrypted_password as retCode, to a direct caller as the result
SaveReturn(v) ==
  IF rd.caller = "get_encrypted_password"
  THEN /\ rd' = [rd EXCEPT !.retcode = v]
       /\ pc' = "saved"
       /\ result' = result
  ELSE /\ rd' = rd
       /\ pc' = "done"
       /\ result' = v

\* lines 776-785: an unreadable alias or password returns None, no JDK returns 1
SaveStart ==
  /\ pc = "save"
  /\ IF ~SaveAccepts(rd.alias, call.passwd)
     THEN SaveReturn(None)
     ELSE IF jdkPath = None
     THEN SaveReturn(PyInt(1))
     ELSE /\ rd' = [rd EXCEPT !.masterKey = MasterKeyArg(rd.masterKey)]
          /\ pc' = "save_run"
          /\ result' = result
  /\ UNCHANGED <<tmpFile, call, isSecure, masterKey, alias, password, exitStatus,
                 events>>
  /\ EnvUnchanged

\* lines 787-792: run_os_command(PUT alias passwd masterKey), return its exit code
RunPut ==
  /\ pc = "save_run"
  /\ \E rc \in RetCodes :
       /\ events' = Append(events, Event("PUT", rd.alias, call.passwd, rd.masterKey,
                                         rd.caller, PyInt(rc)))
       /\ SaveReturn(PyInt(rc))
  /\ UNCHANGED <<tmpFile, call, isSecure, masterKey, alias, password, exitStatus>>
  /\ EnvUnchanged

-----------------------------------------------------------------------------
(* get_encrypted_password *)

\* lines 702-706 with a bare `return` when the save failed
EncryptedResult_NoneOnFailure(retCode, a, passwd) ==
  IF retCode # PyInt(0) THEN None ELSE PyStr(get_alias_string(a.s))

\* lines 702-706: the password back when the save failed, the alias string otherwise
EncryptedResult(retCode, a, passwd) ==
  IF retCode # PyInt(0) THEN passwd ELSE PyStr(get_alias_string(a.s))

\* lines 693-699 up to the first blocking call: the key file is looked up in
\* any case; encryption disabled returns the password; a key file found goes
\* to save_passwd_for_alias with masterKey None; otherwise
\* get_original_master_key starts
EncryptStart ==
  /\ pc = "encrypt"
  /\ isSecure' = get_is_secure(properties)
  /\ events' = Append(events, Event("search_file", None, None, None,
                                    "get_encrypted_password", None))
  /\ IF ~isSecure'
     THEN /\ result' = call.passwd
          /\ pc' = "done"
          /\ UNCHANGED <<masterKey, rd>>
     ELSE /\ masterKey' = None
          /\ IF Truthy(masterKeyFile)
             THEN /\ rd' = [alias |-> call.alias, masterKey |-> None,
                            caller |-> "get_encrypted_password", retcode |-> None]
                  /\ pc' = "save"
             ELSE /\ pc' = "prompt"
                  /\ rd' = rd
          /\ result' = result
  /\ UNCHANGED <<tmpFile, call, alias, password, exitStatus>>
  /\ EnvUnchanged

\* get_original_master_key returned masterKey: line 701
EncryptSave ==
  /\ pc = "key_returned"
  /\ call.name = "get_encrypted_password"
  /\ rd' = [alias |-> call.alias, masterKey |-> masterKey,
            caller |-> "get_encrypted_password", retcode |-> None]
  /\ pc' = "save"
  /\ UNCHANGED <<tmpFile, call, isSecure, masterKey, alias, password, result,
                 exitStatus, events>>
  /\ EnvUnchanged

\* lines 702-706: save_passwd_for_alias has returned retCode
EncryptFinish ==
  /\ pc = "saved"
  /\ result' = EncryptedResult(rd.retcode, call.alias, call.passwd)
  /\ pc' = "done"
  /\ UNCHANGED <<tmpFile, call, isSecure, masterKey, alias, password, rd, exitStatus,
                 events>>
  /\ EnvUnchanged

-----------------------------------------------------------------------------
(* DatabaseTypeResolver *)

\* class ServerDatabaseType
ServerDatabaseType_internal == 0
ServerDatabaseType_remote == 1

\* ServerDatabaseEntry(name, title, db_type, aliases)
ServerDatabaseEntry(name, db_type, aliases) ==
  [t |-> "entry", name |-> name, dbtype |-> db_type, aliases |-> aliases]

PostgresName == <<"p","o","s","t","g","r","e","s">>
OracleName == <<"o","r","a","c","l","e">>
MysqlName == <<"m","y","s","q","l">>
MssqlName == <<"m","s","s","q","l">>
DerbyName == <<"d","e","r","b","y">>
SqlanywhereName == <<"s","q","l","a","n","y","w","h","e","r","e">>
EmbeddedAlias == <<"e","m","b","e","d","d","e","d">>
LocalLiteral == <<"l","o","c","a","l">>

\* the class attributes of ServerDatabases
postgres == ServerDatabaseEntry(PostgresName, ServerDatabaseType_remote, {})
oracle == ServerDatabaseEntry(OracleName, ServerDatabaseType_remote, {})
mysql == ServerDatabaseEntry(MysqlName, ServerDatabaseType_remote, {})
mssql == ServerDatabaseEntry(MssqlName, ServerDatabaseType_remote, {})
derby == ServerDatabaseEntry(DerbyName, ServerDatabaseType_remote, {})
sqlanywhere == ServerDatabaseEntry(SqlanywhereName, ServerDatabaseType_remote, {})
postgres_internal ==
  ServerDatabaseEntry(PostgresName, ServerDatabaseType_internal, {EmbeddedAlias})

\* the attributes in the order the class body declares them
DeclaredOrder == <<postgres, oracle, mysql, mssql, derby, sqlanywhere>>

\* ServerDatabases.__dict__ is a hash table: its iteration order is not the
\* declaration order.  The orders explored put postgres_internal at each
\* position among the remote entries, so both relative orders of the two
\* entries named "postgres" occur.
RegistryOrders ==
  { SubSeq(DeclaredOrder, 1, i) \o <<postgres_internal>>
      \o SubSeq(DeclaredOrder, i + 1, Len(DeclaredOrder)) : i \in 0..Len(DeclaredOrder) }

\* ServerDatabaseEntry.__eq__(self, other)
EntryEq(self, other) ==
  IF other = None THEN FALSE
  ELSE IF other.t = "entry"
       THEN self.name = other.name /\ self.dbtype = other.dbtype
       ELSE self.name = other.s \/ other.s \in self.aliases

\* `a == b` where a may be None and b is an entry
EqEntry(a, b) == IF a = None THEN FALSE ELSE EntryEq(a, b)

\* ServerDatabases.match(name), iterating the registry in the given order
match(name, order) ==
  LET hits == {i \in 1..Len(order) : EntryEq(order[i], name)}
  IN  IF hits = {} THEN None
      ELSE order[CHOOSE i \in hits : \A j \in hits : i <= j]

\* the explicit step without the substitution of the embedded variant
ExplicitStep_NoSubstitution(props, order) ==
  LET name == get_property(props, JDBC_DATABASE_PROPERTY)
  IN  IF Truthy(name) THEN match(name, order) ELSE None

\* get_db_type, lines 600-603: the explicit database type
ExplicitStep(props, order) ==
  LET persistence_type == get_property(props, PERSISTENCE_TYPE_PROPERTY)
      name == get_property(props, JDBC_DATABASE_PROPERTY)
  IN  IF Truthy(name)
      THEN LET db_type == match(name, order)
           IN  IF EqEntry(db_type, postgres) /\ persistence_type = PyStr(LocalLiteral)
               THEN postgres_internal
               ELSE db_type
      ELSE None

\* the URL test with mysql tried before postgres
UrlMatch_MysqlFirst(url) ==
  LET jdbc_url == Lower(url)
  IN  IF Contains(jdbc_url, mysql.name) THEN mysql
      ELSE IF Contains(jdbc_url, postgres.name) THEN postgres
      ELSE IF Contains(jdbc_url, oracle.name) THEN oracle
      ELSE IF Contains(jdbc_url, mssql.name) THEN mssql
      ELSE IF Contains(jdbc_url, derby.name) THEN derby
      ELSE IF Contains(jdbc_url, sqlanywhere.name) THEN sqlanywhere
      ELSE None

\* get_db_type, lines 606-618: the first name found in the lowercased URL
UrlMatch(url) ==
  LET jdbc_url == Lower(url)
  IN  IF Contains(jdbc_url, postgres.name) THEN postgres
      ELSE IF Contains(jdbc_url, oracle.name) THEN oracle
      ELSE IF Contains(jdbc_url, mysql.name) THEN mysql
      ELSE IF Contains(jdbc_url, mssql.name) THEN mssql
      ELSE IF Contains(jdbc_url, derby.name) THEN derby
      ELSE IF Contains(jdbc_url, sqlanywhere.name) THEN sqlanywhere
      ELSE None

\* the URL consulted without the test `db_type is None`
UrlStep_NoGuard(props, db_type) ==
  LET url == get_property(props, JDBC_URL_PROPERTY)
  IN  IF Truthy(url) THEN UrlMatch(url.s) ELSE db_type

\* get_db_type, line 605: the URL is consulted only without an explicit match
UrlStep(props, db_type) ==
  LET url == get_property(props, JDBC_URL_PROPERTY)
  IN  IF Truthy(url) /\ db_type = None THEN UrlMatch(url.s) ELSE db_type

\* the local fallback left out
LocalStep_Missing(props, db_type) == db_type

\* the local fallback taken for 'local' in any letter case
LocalStep_AnyCase(props, db_type) ==
  LET p == get_property(props, PERSISTENCE_TYPE_PROPERTY)
  IN  IF IsStr(p) /\ Lower(p.s) = LocalLiteral /\ db_type = None
      THEN postgres_internal
      ELSE db_type

\* get_db_type, lines 620-621: the local fallback
LocalStep(props, db_type) ==
  IF get_property(props, PERSISTENCE_TYPE_PROPERTY) = PyStr(LocalLiteral) /\ db_type = None
  THEN postgres_internal
  ELSE db_type

\* get_db_type(properties)
get_db_type(props, order) ==
  LocalStep(props, UrlStep(props, ExplicitStep(props, order)))

\* how many pieces a JDBC URL of the model is made of, at most
MaxUrlParts == 2

\* pieces of JDBC URLs: "jdbc:", the six names in lower or mixed case, and
\* fragments that form a name only across a piece boundary
UrlParts ==
  { <<"j","d","b","c",":">>,
    PostgresName, <<"P","o","s","t","G","R","E","S">>,
    MysqlName, <<"M","y","S","Q","L">>,
    OracleName, MssqlName, DerbyName, SqlanywhereName,
    <<"m","y">>, <<"s","q","l">> }

RECURSIVE Concat(_)
\* the concatenation of a sequence of strings
Concat(parts) == IF parts = <<>> THEN <<>> ELSE Head(parts) \o Concat(Tail(parts))

\* values of server.jdbc.url: absent, or a string made of at most MaxUrlParts pieces
UrlValues ==
  {None} \cup
  { PyStr(Concat(ps)) : ps \in UNION {[1..n -> UrlParts] : n \in 0..MaxUrlParts} }

\* values of server.jdbc.database: absent, "", the six names, "embedded",
\* "MySQL" and "bogus"
DatabaseValues ==
  {None, PyStr(<<>>), PyStr(PostgresName), PyStr(OracleName), PyStr(MysqlName),
   PyStr(MssqlName), PyStr(DerbyName), PyStr(SqlanywhereName), PyStr(EmbeddedAlias),
   PyStr(<<"M","y","S","Q","L">>), PyStr(<<"b","o","g","u","s">>)}

\* values of server.persistence.type: absent, "local", "remote", "LOCAL"
PersistenceValues ==
  {None, PyStr(LocalLiteral), PyStr(<<"r","e","m","o","t","e">>),
   PyStr(<<"L","O","C","A","L">>)}

InitDb ==
  /\ \E d \in DatabaseValues, u \in UrlValues, p \in PersistenceValues :
       properties = (JDBC_DATABASE_PROPERTY :> d)
                    @@ (JDBC_URL_PROPERTY :> u)
                    @@ (PERSISTENCE_TYPE_PROPERTY :> p)
  /\ dbOrder \in RegistryOrders
  /\ confFile = None
  /\ tmpDir = NoFiles
  /\ masterKeyFile = None
  /\ jdkPath = None
  /\ tmpFile = None
  /\ call = NoCall
  /\ pc = "idle"
  /\ isSecure = FALSE
  /\ masterKey = None
  /\ alias = None
  /\ password = None
  /\ rd = NoFrame
  /\ result = None
  /\ exitStatus = None
  /\ events = <<>>

\* get_db_type(properties) as one call
GetDbType ==
  /\ pc = "idle"
  /\ JDBC_DATABASE_PROPERTY \in DOMAIN properties
  /\ call' = [NoCall EXCEPT !.name = "get_db_type"]
  /\ result' = get_db_type(properties, dbOrder)
  /\ pc' = "done"
  /\ UNCHANGED <<properties, masterKeyFile, jdkPath, tmpFile, isSecure, masterKey,
                 alias, password, rd, exitStatus, events, dbOrder, confFile, tmpDir>>

NextDb == GetDbType

SpecDb == InitDb /\ [][NextDb]_vars

-----------------------------------------------------------------------------
(* SecretAliasCodec: the three functions applied to bounded strings *)

\* how many pieces a string handed to the codec is made of, at most
MaxTextParts == 4
\* how many codec functions are applied one after the other, at most
MaxCodecCalls == 2

\* pieces of codec inputs: the prefix, word characters, a dot, the closing
\* brace and a character outside [\w\.]
TextParts ==
  { AliasPrefix, <<"a","7">>, <<"_","B">>, <<".">>, <<"}">>, <<"-">> }

\* the strings handed to the codec
CodecTexts ==
  { Concat(ps) : ps \in UNION {[1..n -> TextParts] : n \in 0..MaxTextParts} }

InitCodec ==
  /\ \E text \in CodecTexts :
       call = [NoCall EXCEPT !.name = "codec", !.alias = PyStr(text)]
  /\ properties = [k \in {} |-> None]
  /\ dbOrder = DeclaredOrder
  /\ confFile = None
  /\ tmpDir = NoFiles
  /\ masterKeyFile = None
  /\ jdkPath = None
  /\ tmpFile = None
  /\ pc = "idle"
  /\ isSecure = FALSE
  /\ masterKey = None
  /\ alias = None
  /\ password = None
  /\ rd = NoFrame
  /\ result = None
  /\ exitStatus = None
  /\ events = <<>>

\* the string the next codec function is applied to: the input, or what the
\* previous function returned
CodecArg == IF events = <<>> THEN call.alias ELSE events[Len(events)].rc

\* one more codec function may be applied, to a string
CodecReady ==
  /\ call.name = "codec"
  /\ Len(events) < MaxCodecCalls
  /\ IsStr(CodecArg)

CodecReturn(fn, value) ==
  /\ result' = value
  /\ events' = Append(events, Event(fn, CodecArg, None, None, "", value))
  /\ UNCHANGED <<properties, masterKeyFile, jdkPath, tmpFile, call, pc, isSecure,
                 masterKey, alias, password, rd, exitStatus, dbOrder, confFile, tmpDir>>

\* is_alias_string(passwdStr)
IsAliasString ==
  /\ CodecReady
  /\ CodecReturn("is_alias_string", PyBool(is_alias_string(CodecArg.s)))

\* get_alias_string(alias)
GetAliasString ==
  /\ CodecReady
  /\ CodecReturn("get_alias_string", PyStr(get_alias_string(CodecArg.s)))

\* get_alias_from_alias_string(aliasStr)
GetAliasFromAliasString ==
  /\ CodecReady
  /\ CodecReturn("get_alias_from_alias_string",
                 PyStr(get_alias_from_alias_string(CodecArg.s)))

NextCodec ==
  \/ IsAliasString
  \/ GetAliasString
  \/ GetAliasFromAliasString

SpecCodec == InitCodec /\ [][NextCodec]_vars

-----------------------------------------------------------------------------
(* PropertyStore: the Properties class (ambari_server.properties) *)

\* the class is imported, not defined, by serverConfiguration.py; it is
\* modelled as the ordered map of spec section 4.1: keys keep the position at
\* which they were first seen, new keys go to the end, removed keys are not
\* written.  order: the keys in first-seen order; vals: key -> value;
\* stored: the keys that store writes.

Range(f) == {f[x] : x \in DOMAIN f}

\* Properties()
EmptyProperties == [order |-> <<>>, vals |-> NoFiles, stored |-> {}]

\* process_pair that moves an updated key to the end
process_pair_Reinsert(p, key, value) ==
  [order  |-> Append(SelectSeq(p.order, LAMBDA k : k # key), key),
   vals   |-> (key :> value) @@ p.vals,
   stored |-> p.stored \cup {key}]

\* properties.process_pair(key, value): adds or overrides the property
process_pair(p, key, value) ==
  [order  |-> IF key \in Range(p.order) THEN p.order ELSE Append(p.order, key),
   vals   |-> (key :> value) @@ p.vals,
   stored |-> p.stored \cup {key}]

\* properties.removeOldProp(key)
removeOldProp(p, key) == [p EXCEPT !.stored = @ \ {key}]

RECURSIVE parse(_, _)
\* the key=value lines of a file processed in file order
parse(p, lines) ==
  IF lines = <<>> THEN p
  ELSE parse(process_pair(p, Head(lines)[1], Head(lines)[2]), Tail(lines))

\* properties.load(open(conf_file)) on a readable file
load(file) == parse(EmptyProperties, file.content)

\* properties.store(...) / properties.store_ordered(...): the lines written
store(p) ==
  LET ks == SelectSeq(p.order, LAMBDA k : k \in p.stored)
  IN  [i \in 1..Len(ks) |-> <<ks[i], p.vals[ks[i]]>>]

\* properties.has_key(key)
has_key(p, key) == key \in DOMAIN p.vals

\* properties.keys()
keys(p) == Range(p.order)

\* properties[key]
getitem(p, key) == IF has_key(p, key) THEN PyStr(p.vals[key]) ELSE None

\* the Properties object as the key -> value map get_db_type reads
AsMap(p) == [k \in DOMAIN p.vals |-> PyStr(p.vals[k])]

-----------------------------------------------------------------------------
(* PropertyStore: files, backups and the update functions *)

AMBARI_PROPERTIES_FILE ==
  <<"a","m","b","a","r","i",".","p","r","o","p","e","r","t","i","e","s">>
JDBC_DATABASE_NAME_PROPERTY == "server.jdbc.database_name"
JDBC_RCA_SCHEMA_PROPERTY == "server.jdbc.schema"
NR_USER_PROPERTY == "ambari-server.user"
OS_FAMILY_PROPERTY == "server.os_family"
OS_TYPE_PROPERTY == "server.os_type"
GET_FQDN_SERVICE_URL == "server.fqdn.service.url"
\* "ambari"
DEFAULT_DB_NAME == <<"a","m","b","a","r","i">>
RemoteLiteral == <<"r","e","m","o","t","e">>
\* "root"
RootUser == <<"r","o","o","t">>
\* OS_FAMILY + OS_VERSION of the host, e.g. "redhat6"
OsFamilyVersion == <<"r","e","d","h","a","t","6">>

DigitSeq == <<"0","1","2","3","4","5","6","7","8","9">>

RECURSIVE NatStr(_)
\* str(n) for n >= 0
NatStr(n) ==
  IF n < 10 THEN <<DigitSeq[n + 1]>>
  ELSE NatStr(n \div 10) \o <<DigitSeq[(n % 10) + 1]>>

\* str(value) for None, a str or an int
str(v) ==
  CASE v.t = "None" -> NoneLiteral
    [] v.t = "str"  -> v.s
    [] v.t = "int"  -> IF v.n < 0 THEN <<"-">> \o NatStr(0 - v.n) ELSE NatStr(v.n)

\* a file found by search_file
File(content, readable) == [t |-> "file", readable |-> readable, content |-> content]

\* a dict with its iteration order
Dict(items) == [t |-> "dict", items |-> items]
DictKeys(d) == {d.items[i][1] : i \in 1..Len(d.items)}

FatalException(code) == [t |-> "FatalException", code |-> code]
\* the exception of  None.name
AttributeError == [t |-> "AttributeError"]
IsException(v) == v.t \in {"FatalException", "AttributeError"}

\* one effect on the file system, or the end of a call
FsEvent(e, caller, path, old, content, arg, rc) ==
  [e |-> e, caller |-> caller, path |-> path, old |-> old, content |-> content,
   arg |-> arg, rc |-> rc]

\* what an operation leaves: the properties file, the temp directory, its
\* effects in program order, and the value returned or the exception raised
Outcome(file, tmp, ev, rc) == [file |-> file, tmp |-> tmp, ev |-> ev, rc |-> rc]

\* the file named name begins with prefix: the glob pattern prefix + "*"
StartsWith(name, prefix) ==
  Len(name) >= Len(prefix) /\ SubSeq(name, 1, Len(prefix)) = prefix

\* len(glob.glob1(tmpDir, AMBARI_PROPERTIES_FILE + "*"))
back_up_file_count(tmp) ==
  Cardinality({n \in DOMAIN tmp : StartsWith(n, AMBARI_PROPERTIES_FILE)})

\* the backup numbered with the count itself
BackupName_Count(tmp) ==
  AMBARI_PROPERTIES_FILE \o <<".">> \o NatStr(back_up_file_count(tmp))

\* AMBARI_PROPERTIES_FILE + "." + str(back_up_file_count + 1)
BackupName(tmp) ==
  AMBARI_PROPERTIES_FILE \o <<".">> \o NatStr(back_up_file_count(tmp) + 1)

\* backup_file_in_temp that copies nothing
backup_file_in_temp_Nothing(file, tmp, caller, ok) == [tmp |-> tmp, ev |-> <<>>]

\* backup_file_in_temp(filePath): the copy is made when shutil.copyfile
\* succeeds (ok, and the source can be read); its failure is only reported
backup_file_in_temp(file, tmp, caller, ok) ==
  IF file = None
  THEN [tmp |-> tmp, ev |-> <<>>]
  ELSE LET copied == ok /\ file.readable
       IN  [tmp |-> IF copied THEN (BackupName(tmp) :> file.content) @@ tmp ELSE tmp,
            ev  |-> << FsEvent("backup", caller, BackupName(tmp), None, file.content,
                               None, PyBool(copied)) >>]

\* the overwrite of the properties file
StoreEvent(caller, file, content) ==
  FsEvent("store", caller, AMBARI_PROPERTIES_FILE, file.content, content, None, None)

\* one operation after another: the effects of both, the result of the second
Then(o1, o2) == Outcome(o2.file, o2.tmp, o1.ev \o o2.ev, o2.rc)

\* properties.store(open(conf_file, "w")): the file overwritten with content
Stored(caller, conf_file, tmp, content, rc) ==
  Outcome([conf_file EXCEPT !.content = content], tmp,
          <<StoreEvent(caller, conf_file, content)>>, rc)

RECURSIVE ApplyMap(_, _)
\* for key in propertyMap.keys():
\*   properties.removeOldProp(key); properties.process_pair(key, str(propertyMap[key]))
ApplyMap(p, items) ==
  IF items = <<>> THEN p
  ELSE ApplyMap(process_pair(removeOldProp(p, Head(items)[1]),
                             Head(items)[1], str(Head(items)[2])),
                Tail(items))

\* the second loop of update_properties left out
RemoveOthers_Kept(p, propertyMap) == p

\* for key in properties.keys(): if not propertyMap.has_key(key): removeOldProp(key)
RemoveOthers(p, propertyMap) ==
  [p EXCEPT !.stored = {k \in @ : k \notin keys(p) \/ k \in DictKeys(propertyMap)}]

\* update_properties, lines 1012-1032, b being what backup_file_in_temp left
UpdateBackedUp(file, b, propertyMap) ==
  IF propertyMap # None /\ file # None
  THEN IF ~file.readable
       THEN Outcome(file, b.tmp, b.ev, PyInt(-1))
       ELSE Then(Outcome(file, b.tmp, b.ev, None),
                 Stored("update_properties", file, b.tmp,
                        store(RemoveOthers(ApplyMap(load(file), propertyMap.items),
                                           propertyMap)),
                        PyInt(0)))
  ELSE Outcome(file, b.tmp, b.ev, PyInt(0))

\* update_properties(propertyMap)
update_properties(file, tmp, propertyMap, ok) ==
  UpdateBackedUp(file, backup_file_in_temp(file, tmp, "update_properties", ok),
                 propertyMap)

\* update_properties_2, lines 1037-1046, b being what backup_file_in_temp left
Update2BackedUp(file, b, p, propertyMap) ==
  IF file # None
  THEN Then(Outcome(file, b.tmp, b.ev, None),
            Stored("update_properties_2", file, b.tmp,
                   store(IF propertyMap # None THEN ApplyMap(p, propertyMap.items) ELSE p),
                   None))
  ELSE Outcome(file, b.tmp, b.ev, None)

\* update_properties_2(properties, propertyMap)
update_properties_2(file, tmp, p, propertyMap, ok) ==
  Update2BackedUp(file, backup_file_in_temp(file, tmp, "update_properties_2", ok),
                  p, propertyMap)

\* find_properties_file raising with the code -1
FindFailure_MinusOne == FatalException(-1)

\* raise FatalException(1, err) of find_properties_file
FindFailure == FatalException(1)

\* find_properties_file(): the file found, or the exception raised
find_properties_file(file) == IF file = None THEN FindFailure ELSE file

\* a loaded Properties object as a returned value
Loaded(p) == [t |-> "Properties", p |-> p]

\* get_ambari_properties(): the exception of find_properties_file, -1 when the
\* file cannot be read, or the loaded Properties
get_ambari_properties(file) ==
  IF IsException(find_properties_file(file)) THEN find_properties_file(file)
  ELSE IF ~file.readable THEN PyInt(-1)
  ELSE Loaded(load(file))

\* write_property(key, value)
write_property(file, tmp, key, value) ==
  IF IsException(find_properties_file(file))
  THEN Outcome(file, tmp, <<>>, find_properties_file(file))
  ELSE IF ~file.readable THEN Outcome(file, tmp, <<>>, PyInt(-1))
  ELSE Stored("write_property", file, tmp, store(process_pair(load(file), key, value)),
              PyInt(0))

\* ServerDatabases.databases()
databases(order) == {order[i].name : i \in 1..Len(order)}

\* check_database_name_property, lines 641-643: the schema becomes the name
RemoteName(file, tmp, db_name) ==
  IF Truthy(db_name)
  THEN write_property(file, tmp, JDBC_DATABASE_NAME_PROPERTY, db_name.s)
  ELSE Outcome(file, tmp, <<>>, None)

\* check_database_name_property, lines 648-650: get_db_type(properties).name,
\* written when not empty; None has no attribute name
RemoteTypeWrite(w1, found) ==
  IF found = None
  THEN Outcome(w1.file, w1.tmp, w1.ev, AttributeError)
  ELSE IF found.name # <<>>
  THEN Then(w1, write_property(w1.file, w1.tmp, JDBC_DATABASE_PROPERTY, found.name))
  ELSE Outcome(w1.file, w1.tmp, w1.ev, None)

\* check_database_name_property, lines 645-650: a database type that is absent
\* or no database name is resolved again
RemoteType(w1, db_type, p, order) ==
  IF db_type = None \/ Lower(db_type.s) \notin databases(order)
  THEN RemoteTypeWrite(w1, get_db_type(AsMap(p), order))
  ELSE Outcome(w1.file, w1.tmp, w1.ev, None)

\* check_database_name_property, lines 641-652: persistence type "remote"
MigrateRemote(file, tmp, p, order) ==
  RemoteType(RemoteName(file, tmp, getitem(p, JDBC_RCA_SCHEMA_PROPERTY)),
             getitem(p, JDBC_DATABASE_PROPERTY), p, order)

\* check_database_name_property, lines 658-659: the two writes
LocalWrites(w1) ==
  Then(w1, write_property(w1.file, w1.tmp, JDBC_DATABASE_PROPERTY, PostgresName))

\* check_database_name_property, lines 653-660: persistence type "local"
MigrateLocal(file, tmp, db_name) ==
  IF Truthy(db_name)
  THEN LocalWrites(write_property(file, tmp, JDBC_DATABASE_NAME_PROPERTY, db_name.s))
  ELSE Outcome(file, tmp, <<>>, None)

\* check_database_name_property, line 636: the condition of the migration
NeedsMigration(p, database, upgrade, order) ==
  upgrade /\ (database = None \/ database.s \notin databases(order)
                \/ has_key(p, JDBC_RCA_SCHEMA_PROPERTY))

\* check_database_name_property, lines 636-660: the migration of an upgrade
Migrate(file, tmp, p, upgrade, order) ==
  IF NeedsMigration(p, getitem(p, JDBC_DATABASE_PROPERTY), upgrade, order)
  THEN IF getitem(p, PERSISTENCE_TYPE_PROPERTY) = PyStr(RemoteLiteral)
       THEN MigrateRemote(file, tmp, p, order)
       ELSE IF getitem(p, PERSISTENCE_TYPE_PROPERTY) = PyStr(LocalLiteral)
       THEN MigrateLocal(file, tmp, getitem(p, JDBC_DATABASE_PROPERTY))
       ELSE Outcome(file, tmp, <<>>, None)
  ELSE Outcome(file, tmp, <<>>, None)

\* check_database_name_property, lines 662-665: the name must be set
CheckName(m, dbname) ==
  IF dbname = None \/ dbname = PyStr(<<>>)
  THEN Outcome(m.file, m.tmp, m.ev, FatalException(-1))
  ELSE Outcome(m.file, m.tmp, m.ev, None)

\* check_database_name_property, lines 636-665, m being what the migration left
CheckMigrated(m) ==
  IF IsException(m.rc) THEN m
  ELSE CheckName(m, getitem(load(m.file), JDBC_DATABASE_NAME_PROPERTY))

\* check_database_name_property, got being what get_ambari_properties returned
CheckLoaded(file, tmp, got, upgrade, order) ==
  IF IsException(got) THEN Outcome(file, tmp, <<>>, got)
  ELSE IF got = PyInt(-1) THEN Outcome(file, tmp, <<>>, PyInt(-1))
  ELSE CheckMigrated(Migrate(file, tmp, got.p, upgrade, order))

\* check_database_name_property(upgrade)
check_database_name_property(file, tmp, upgrade, order) ==
  CheckLoaded(file, tmp, get_ambari_properties(file), upgrade, order)

\* the default written by update_database_name_property left empty
RepairName_Empty == <<>>

\* configDefaults.DEFAULT_DB_NAME as update_database_name_property writes it
RepairName == DEFAULT_DB_NAME

\* update_database_name_property, lines 671-683: the handler of FatalException,
\* got being what get_ambari_properties returned
RepairLoaded(c, got) ==
  IF IsException(got) THEN Outcome(c.file, c.tmp, c.ev, got)
  ELSE IF got = PyInt(-1) THEN Outcome(c.file, c.tmp, c.ev, FatalException(-1))
  ELSE Then(c, Stored("update_database_name_property", find_properties_file(c.file),
                      c.tmp,
                      store(process_pair(got.p, JDBC_DATABASE_NAME_PROPERTY, RepairName)),
                      None))

\* update_database_name_property, c being what check_database_name_property left
Repair(c) ==
  IF c.rc.t = "FatalException" THEN RepairLoaded(c, get_ambari_properties(c.file))
  ELSE IF IsException(c.rc) THEN c
  ELSE Outcome(c.file, c.tmp, c.ev, None)

\* update_database_name_property(upgrade)
update_database_name_property(file, tmp, upgrade, order) ==
  Repair(check_database_name_property(file, tmp, upgrade, order))

RECURSIVE ImportOld(_, _)
\* update_ambari_properties, lines 977-984: the old properties carried over
ImportOld(p, items) ==
  IF items = <<>> THEN p
  ELSE LET prop_key == Head(items)[1]
           prop_value == Head(items)[2]
       IN  ImportOld(
             IF prop_key = "agent.fqdn.service.url"
             THEN process_pair(p, GET_FQDN_SERVICE_URL, prop_value)
             ELSE IF prop_key = "server.os_type"
             THEN process_pair(p, OS_TYPE_PROPERTY, OsFamilyVersion)
             ELSE process_pair(p, prop_key, prop_value),
             Tail(items))

\* update_ambari_properties, lines 989-993: the user and the OS family added
\* when absent
AddUser(p) ==
  IF NR_USER_PROPERTY \notin keys(p) THEN process_pair(p, NR_USER_PROPERTY, RootUser) ELSE p
AddOsFamily(p) ==
  IF OS_FAMILY_PROPERTY \notin keys(p)
  THEN process_pair(p, OS_FAMILY_PROPERTY, OsFamilyVersion) ELSE p

\* update_ambari_properties(), prev being what search_file finds for the
\* properties file saved by the previous version
update_ambari_properties(file, tmp, prev) ==
  IF prev = None THEN Outcome(file, tmp, <<>>, PyInt(0))
  ELSE IF file = None THEN Outcome(file, tmp, <<>>, PyInt(-1))
  ELSE IF ~prev.readable \/ ~file.readable THEN Outcome(file, tmp, <<>>, PyInt(-1))
  ELSE Stored("update_ambari_properties", file, tmp,
              store(AddOsFamily(AddUser(ImportOld(load(file), prev.content)))), PyInt(0))

\* encrypt_password(alias, password) up to its call of get_encrypted_password,
\* got being what get_ambari_properties returned
EncryptLoaded(file, tmp, got) ==
  IF IsException(got) THEN Outcome(file, tmp, <<>>, got)
  ELSE IF got = PyInt(-1) THEN Outcome(file, tmp, <<>>, FatalException(1))
  ELSE Outcome(file, tmp, <<>>, [t |-> "call", fn |-> "get_encrypted_password"])

encrypt_password(file, tmp) == EncryptLoaded(file, tmp, get_ambari_properties(file))

-----------------------------------------------------------------------------
(* PropertyStore: the operations called on bounded files *)

\* how many operations are called one after the other, at most
MaxCalls == 2

\* "ambaridb": a database name that is not a database type
OldDbName == <<"a","m","b","a","r","i","d","b">>
SchemaName == <<"s","c","h">>
CustomName == <<"f","o","o">>

\* the lines of a properties file with the given values, absent for None
Lines(persistence, database, schema, url, name) ==
  LET all == << <<PERSISTENCE_TYPE_PROPERTY, persistence>>,
                <<JDBC_DATABASE_PROPERTY, database>>,
                <<JDBC_RCA_SCHEMA_PROPERTY, schema>>,
                <<JDBC_URL_PROPERTY, url>>,
                <<JDBC_DATABASE_NAME_PROPERTY, name>> >>
      set == SelectSeq(all, LAMBDA kv : kv[2] # None)
  IN  [i \in 1..Len(set) |-> <<set[i][1], set[i][2].s>>]

\* the contents of ambari.properties explored: the persistence type absent,
\* local or remote; the database type absent, postgres or an old database
\* name; the schema absent or set; the database name absent, empty or set; a
\* JDBC URL naming mysql where get_db_type is asked (remote, no valid type)
FileContents ==
  { Lines(p, d, sc, u, n) :
      p \in {None, PyStr(LocalLiteral), PyStr(RemoteLiteral)},
      d \in {None, PyStr(PostgresName), PyStr(OldDbName)},
      sc \in {None, PyStr(SchemaName)},
      u \in {None, PyStr(MysqlName)},
      n \in {None, PyStr(<<>>), PyStr(CustomName)} }

\* the files explored: not found, readable with each content, and one that
\* open() cannot read
ConfFiles ==
  {None} \cup {File(c, TRUE) : c \in {x \in FileContents :
                  \A i \in 1..Len(x) :
                    x[i][1] = JDBC_URL_PROPERTY =>
                      /\ <<PERSISTENCE_TYPE_PROPERTY, RemoteLiteral>> \in Range(x)
                      /\ <<JDBC_DATABASE_PROPERTY, PostgresName>> \notin Range(x)}}
         \cup {File(Lines(None, None, None, None, PyStr(CustomName)), FALSE)}

\* a temp directory in use: the first backup, a file of another program whose
\* name begins with ambari.properties, and one whose name does not
UsedTmpDir ==
  ((AMBARI_PROPERTIES_FILE \o <<".","1">>) :> Lines(None, None, None, None, None))
    @@ ((AMBARI_PROPERTIES_FILE \o <<".","b","a","k">>) :> <<>>)
    @@ (<<"a","m","b","a","r","i",".","p","a","s","s","w","d">> :> <<>>)

\* the temp directory at the start: empty, or, for the files without a
\* persistence type, the one in use
TmpDirs(file) ==
  {NoFiles} \cup
  (IF file # None /\ file.readable
        /\ \A i \in 1..Len(file.content) : file.content[i][1] # PERSISTENCE_TYPE_PROPERTY
   THEN {UsedTmpDir} ELSE {})

\* a propertyMap that updates the database type and adds or updates the
\* database name with an int
SomeMap ==
  Dict(<< <<JDBC_DATABASE_PROPERTY, PyStr(OracleName)>>,
          <<JDBC_DATABASE_NAME_PROPERTY, PyInt(7)>> >>)

\* the arguments of update_properties with the outcome of the backup copy:
\* the map with a copy that succeeds or fails, and no map
UpdateArgs == { <<SomeMap, TRUE>>, <<SomeMap, FALSE>>, <<None, TRUE>> }

\* a Properties object the caller of update_properties_2 built without the file
StaleProperties == process_pair(EmptyProperties, PERSISTENCE_TYPE_PROPERTY, LocalLiteral)

\* the arguments of update_properties_2 with the outcome of the backup copy:
\* the object loaded from the file as it is, with the map (the copy succeeding
\* or failing) and without a map, and the stale object with the map
Update2Args ==
  { <<StaleProperties, SomeMap, TRUE>> } \cup
  (IF confFile # None /\ confFile.readable
   THEN { <<load(confFile), SomeMap, TRUE>>, <<load(confFile), SomeMap, FALSE>>,
          <<load(confFile), None, TRUE>> }
   ELSE {})

\* the (key, value) arguments of write_property
WriteArgs ==
  { <<JDBC_RCA_SCHEMA_PROPERTY, SchemaName>>, <<JDBC_DATABASE_PROPERTY, OldDbName>> }

\* what search_file finds for the properties file of the previous version
PrevFiles ==
  { None,
    File(<< <<"agent.fqdn.service.url", <<"u">> >>,
            <<JDBC_DATABASE_NAME_PROPERTY, <<"o","l","d">> >> >>, TRUE) }

InitFile ==
  /\ confFile \in ConfFiles
  /\ tmpDir \in TmpDirs(confFile)
  /\ dbOrder = Append(DeclaredOrder, postgres_internal)
  /\ properties = [k \in {} |-> None]
  /\ masterKeyFile = None
  /\ jdkPath = None
  /\ tmpFile = None
  /\ call = [NoCall EXCEPT !.name = "file"]
  /\ pc = "idle"
  /\ isSecure = FALSE
  /\ masterKey = None
  /\ alias = None
  /\ password = None
  /\ rd = NoFrame
  /\ result = None
  /\ exitStatus = None
  /\ events = <<>>

\* the calls made so far
Returns == SelectSeq(events, LAMBDA ev : ev.e = "return")

\* one more operation may be called
FileReady ==
  /\ call.name = "file"
  /\ Len(Returns) < MaxCalls

\* one operation called with arg, from its entry to its return or exception
FileCall(name, arg, out) ==
  /\ confFile' = out.file
  /\ tmpDir' = out.tmp
  /\ result' = out.rc
  /\ events' = events \o out.ev
                 \o <<FsEvent("return", name, AMBARI_PROPERTIES_FILE, confFile, out.file,
                              arg, out.rc)>>
  /\ UNCHANGED <<properties, masterKeyFile, jdkPath, tmpFile, call, pc, isSecure,
                 masterKey, alias, password, rd, exitStatus, dbOrder>>

UpdateProperties ==
  /\ FileReady
  /\ \E a \in UpdateArgs :
       FileCall("update_properties", [propertyMap |-> a[1]],
                update_properties(confFile, tmpDir, a[1], a[2]))

UpdateProperties2 ==
  /\ FileReady
  /\ \E a \in Update2Args :
       FileCall("update_properties_2", [properties |-> a[1], propertyMap |-> a[2]],
                update_properties_2(confFile, tmpDir, a[1], a[2], a[3]))

WriteProperty ==
  /\ FileReady
  /\ \E kv \in WriteArgs :
       FileCall("write_property", [key |-> kv[1], value |-> kv[2]],
                write_property(confFile, tmpDir, kv[1], kv[2]))

CheckDatabaseNameProperty ==
  /\ FileReady
  /\ \E upgrade \in BOOLEAN :
       FileCall("check_database_name_property", [upgrade |-> upgrade],
                check_database_name_property(confFile, tmpDir, upgrade, dbOrder))

UpdateDatabaseNameProperty ==
  /\ FileReady
  /\ \E upgrade \in BOOLEAN :
       FileCall("update_database_name_property", [upgrade |-> upgrade],
                update_database_name_property(confFile, tmpDir, upgrade, dbOrder))

UpdateAmbariProperties ==
  /\ FileReady
  /\ \E prev \in PrevFiles :
       FileCall("update_ambari_properties", [prev |-> prev],
                update_ambari_properties(confFile, tmpDir, prev))

FindPropertiesFile ==
  /\ FileReady
  /\ FileCall("find_properties_file", None,
              Outcome(confFile, tmpDir, <<>>, find_properties_file(confFile)))

GetAmbariProperties ==
  /\ FileReady
  /\ FileCall("get_ambari_properties", None,
              Outcome(confFile, tmpDir, <<>>, get_ambari_properties(confFile)))

EncryptPassword ==
  /\ FileReady
  /\ FileCall("encrypt_password", None, encrypt_password(confFile, tmpDir))


NextFile ==
  \/ UpdateProperties
  \/ UpdateProperties2
  \/ WriteProperty
  \/ CheckDatabaseNameProperty
  \/ UpdateDatabaseNameProperty
  \/ UpdateAmbariProperties
  \/ FindPropertiesFile
  \/ GetAmbariProperties
  \/ EncryptPassword

SpecFile == InitFile /\ [][NextFile]_vars

-----------------------------------------------------------------------------

Next ==
  \/ CallDecrypt
  \/ CallRead
  \/ CallSave
  \/ CallEncrypt
  \/ DecryptStart
  \/ DecryptRead
  \/ Prompt
  \/ PromptInterrupt
  \/ CheckKey
  \/ ReadStart
  \/ RunGet
  \/ ReadFinish
  \/ SaveStart
  \/ RunPut
  \/ EncryptStart
  \/ EncryptSave
  \/ EncryptFinish

Spec == Init /\ [][Next]_vars

-----------------------------------------------------------------------------
(* vocabulary of the properties checked *)

\* the events of one kind, in program order
EventsOf(e) == SelectSeq(events, LAMBDA ev : ev.e = e)

\* the positions of the GET invocations issued by the given caller
GetsBy(caller) ==
  {i \in 1..Len(events) : events[i].e = "GET" /\ events[i].caller = caller}

Last(seq) == seq[Len(seq)]

\* a value is absent or empty
Blank(v) == v = None \/ v = PyStr(<<>>)

UpperOf(c) ==
  IF c \in LowerLetters
  THEN UpperSeq[CHOOSE i \in 1..Len(LowerSeq) : LowerSeq[i] = c]
  ELSE c

\* every spelling of the word w in any letter case
CaseVariants(w) ==
  { [i \in 1..Len(w) |-> IF i \in U THEN UpperOf(w[i]) ELSE w[i]] :
      U \in SUBSET (1..Len(w)) }

\* encryption is disabled: the property is absent, empty, or not 'true' in any case
EncryptionDisabled ==
  LET v == get_property(properties, SECURITY_IS_ENCRYPTION_ENABLED)
  IN  Blank(v) \/ v.s \notin CaseVariants(TrueLiteral)

InDecrypt == call.name = "decrypt_password_for_alias"
InRead == call.name = "read_passwd_for_alias"
InSave == call.name = "save_passwd_for_alias"

-----------------------------------------------------------------------------
(* C1 *)

\* C1 as stated: in decrypt_password_for_alias with encryption enabled (read
\* here for a non-empty alias and a JDK found, where a GET can be issued at
\* all), a key file found means no prompt and exactly one GET, for the
\* requested alias with 'None'; no key file means every GET for the requested
\* alias comes after an accepted key and carries that key.
C1_AsStated ==
  (pc = "done" /\ InDecrypt /\ isSecure /\ Truthy(call.alias) /\ jdkPath # None) =>
    IF Truthy(masterKeyFile)
    THEN /\ EventsOf("prompt") = <<>>
         /\ Len(EventsOf("GET")) = 1
         /\ EventsOf("GET")[1].alias = call.alias
         /\ EventsOf("GET")[1].key = PyStr(NoneLiteral)
    ELSE \A i \in 1..Len(events) :
           (events[i].e = "GET" /\ events[i].alias = call.alias) =>
             \E j \in 1..(i - 1) :
               events[j].e = "accept" /\ events[j].key = events[i].key

\* C1 amended: with a key file there is no prompt, and the GET is issued once,
\* for the requested alias with 'None', exactly when the alias is non-empty and
\* a JDK is found (otherwise no GET at all); without a key file the GET that
\* decrypt_password_for_alias itself issues (the validation GETs of
\* get_original_master_key may name the same alias with a rejected candidate)
\* comes after the one accepted key, carries it, and is issued at most once,
\* every validation GET preceding the acceptance.
C1_DecryptOrder ==
  (InDecrypt /\ pc # "decrypt") =>
    LET own == GetsBy("decrypt_password_for_alias")
        accepts == {j \in 1..Len(events) : events[j].e = "accept"}
        runs == Truthy(call.alias) /\ jdkPath # None
    IN  /\ Cardinality(own) <= 1
        /\ \A i \in own : events[i].alias = call.alias
        /\ (pc = "done" /\ isSecure) => (Cardinality(own) = 1 <=> runs)
        /\ ~isSecure => own = {}
        /\ IF Truthy(masterKeyFile)
           THEN /\ EventsOf("prompt") = <<>>
                /\ \A i \in 1..Len(events) : events[i].e = "GET" => i \in own
                /\ \A i \in own : events[i].key = PyStr(NoneLiteral)
           ELSE /\ Cardinality(accepts) <= 1
                /\ \A i \in own : \E j \in accepts :
                     j < i /\ events[j].key = events[i].key
                /\ \A i \in GetsBy("get_original_master_key") :
                     \A j \in accepts : i < j

\* a run without key file in which a candidate was rejected with a GET for the
\* requested alias, another was accepted, and the requested alias was then read
C1_Witness ==
  /\ pc = "done" /\ InDecrypt /\ isSecure /\ ~Truthy(masterKeyFile)
  /\ EventsOf("reject") # <<>>
  /\ GetsBy("decrypt_password_for_alias") # {}
  /\ \E i \in GetsBy("get_original_master_key") : events[i].alias = call.alias

-----------------------------------------------------------------------------
(* C2 *)

PasswordProperties ==
  <<JDBC_PASSWORD_PROPERTY, LDAP_MGR_PASSWORD_PROPERTY, SSL_TRUSTSTORE_PASSWORD_PROPERTY>>
PasswordAliases ==
  <<JDBC_RCA_PASSWORD_ALIAS, LDAP_MGR_PASSWORD_ALIAS, SSL_TRUSTSTORE_PASSWORD_ALIAS>>

\* the positions of the three properties that hold an alias-encoded value
AliasEncoded ==
  {n \in 1..Len(PasswordProperties) : HoldsAlias(properties, PasswordProperties[n])}

\* C2 as stated: get_original_master_key returns a candidate only if none of
\* the three properties is alias-encoded, or the alias of the first alias-encoded
\* one was decrypted with the candidate and the decryption gave a non-empty
\* password; a candidate whose decryption is empty is rejected.
C2_AsStated ==
  /\ pc = "key_returned" =>
       \/ AliasEncoded = {}
       \/ /\ EventsOf("GET") # <<>>
          /\ LET first == CHOOSE n \in AliasEncoded : \A m \in AliasEncoded : n <= m
                 get == Last(EventsOf("GET"))
             IN  /\ get.alias = PyStr(PasswordAliases[first])
                 /\ get.key = masterKey
          /\ IsStr(password) /\ password.s # <<>>
  /\ \A i \in GetsBy("get_original_master_key") :
       (events[i].rc # PyInt(0) \/ events[i].arg = PyStr(<<>>)) =>
         /\ Len(events) >= i + 2 => events[i + 2].e = "reject"
         /\ Len(events) >= i + 3 => events[i + 3].e \in {"prompt", "exit"}

-----------------------------------------------------------------------------
(* C3 *)

\* C3: with encryption disabled decrypt_password_for_alias returns its alias
\* argument unchanged and has no effect at all: no key-file lookup, no prompt,
\* no temp file created or removed, no subprocess, no exit.
C3_DisabledReturnsAlias ==
  (InDecrypt /\ pc # "decrypt" /\ EncryptionDisabled) =>
    /\ pc = "done"
    /\ result = call.alias
    /\ events = <<>>
    /\ exitStatus = None

\* encryption set to "false", a real alias asked for, and the call has returned
C3_Witness ==
  /\ InDecrypt /\ pc = "done"
  /\ properties[SECURITY_IS_ENCRYPTION_ENABLED] = PyStr(<<"f","a","l","s","e">>)
  /\ call.alias = PyStr(JDBC_RCA_PASSWORD_ALIAS)
  /\ result = call.alias
  /\ tmpFile # None

-----------------------------------------------------------------------------
(* C4 *)

\* C4 as stated: after a GET that exited nonzero, read_passwd_for_alias returns
\* what the subprocess left in the temp file.
C4_AsStated ==
  (InRead /\ pc = "done" /\ EventsOf("GET") # <<>>) =>
    (Last(EventsOf("GET")).rc # PyInt(0) => result = Last(EventsOf("GET")).arg)

\* C4 amended: after a GET that exited nonzero, read_passwd_for_alias returns
\* the empty string whatever the subprocess left in the temp file (the file is
\* not read); the content of the file is returned only for exit code 0.
C4_NonzeroExitReturnsEmpty ==
  (InRead /\ pc = "done" /\ EventsOf("GET") # <<>>) =>
    LET get == Last(EventsOf("GET"))
    IN  result = IF get.rc # PyInt(0) THEN PyStr(<<>>) ELSE get.arg

\* the subprocess wrote "pw", exited with 1, and the call returned ""
C4_Witness ==
  /\ InRead /\ pc = "done" /\ EventsOf("GET") # <<>>
  /\ Last(EventsOf("GET")).rc = PyInt(1)
  /\ Last(EventsOf("GET")).arg = PyStr(<<"p","w">>)
  /\ result = PyStr(<<>>)

-----------------------------------------------------------------------------
(* C5 *)

\* C5: when the subprocess is about to be invoked the temp file exists, is
\* empty and is readable and writable by the owner only; and outside the span
\* between its creation and its removal inside read_passwd_for_alias every
\* temp file a call created has been removed again, whatever the exit code.
C5_TempFileLifecycle ==
  /\ pc = "read_run" =>
       /\ tmpFile # None
       /\ tmpFile.content = <<>>
       /\ tmpFile.mode = OwnerReadWrite
  /\ (pc \notin {"read_run", "read_finish"} /\ EventsOf("tmp_create") # <<>>) =>
       /\ tmpFile = None
       /\ Len(EventsOf("tmp_remove")) = Len(EventsOf("tmp_create"))
       /\ Len(EventsOf("GET")) = Len(EventsOf("tmp_create"))

\* a direct call whose subprocess exited nonzero after writing, now returned
C5_Witness ==
  /\ InRead /\ pc = "done" /\ EventsOf("GET") # <<>>
  /\ Last(EventsOf("GET")).rc = PyInt(1)
  /\ Last(EventsOf("GET")).arg # PyStr(<<>>)
  /\ tmpFile = None

-----------------------------------------------------------------------------
(* C6 *)

\* C6: save_passwd_for_alias with an empty or absent alias or secret returns
\* without any effect; with both non-empty and a JDK found it invokes PUT
\* exactly once, for that alias and secret, with 'None' in place of an absent or
\* empty master key and the key itself otherwise, and returns the exit code.
C6_SavePasswd ==
  (InSave /\ pc = "done") =>
    IF Blank(call.alias) \/ Blank(call.passwd)
    THEN events = <<>> /\ result = None
    ELSE IF jdkPath # None
    THEN /\ Len(events) = 1
         /\ events[1].e = "PUT"
         /\ events[1].alias = call.alias
         /\ events[1].arg = call.passwd
         /\ events[1].key = IF Blank(call.masterKey) THEN PyStr(NoneLiteral)
                            ELSE call.masterKey
         /\ result = events[1].rc
    ELSE events = <<>>

\* a PUT with an empty master key that exited with 1
C6_Witness ==
  /\ InSave /\ pc = "done" /\ Len(events) = 1
  /\ call.masterKey = PyStr(<<>>)
  /\ events[1].e = "PUT" /\ events[1].key = PyStr(NoneLiteral)
  /\ result = PyInt(1)

-----------------------------------------------------------------------------
(* vocabulary of the database properties *)

\* the names tested against the JDBC URL, in the order of the claim
PriorityNames ==
  <<PostgresName, OracleName, MysqlName, MssqlName, DerbyName, SqlanywhereName>>

\* the remote descriptor registered under a name
RemoteDescriptor(name) ==
  [t |-> "entry", name |-> name, dbtype |-> ServerDatabaseType_remote, aliases |-> {}]

\* the lower-case word occurs in the text with each letter in either case
ContainsAnyCase(text, word) ==
  \E i \in 0..(Len(text) - Len(word)) :
    \A j \in 1..Len(word) : text[i + j] \in {word[j], UpperOf(word[j])}

\* the positions in PriorityNames of the names found in the URL in any case
NamesInUrl(url) ==
  {n \in 1..Len(PriorityNames) : ContainsAnyCase(url, PriorityNames[n])}

Database == get_property(properties, JDBC_DATABASE_PROPERTY)
Url == get_property(properties, JDBC_URL_PROPERTY)
Persistence == get_property(properties, PERSISTENCE_TYPE_PROPERTY)
IsLocal == Persistence = PyStr(LocalLiteral)
DbDone == pc = "done" /\ call.name = "get_db_type"

\* server.jdbc.database names no entry of the registry: the explicit step gives nothing
NoExplicitType ==
  \/ Blank(Database)
  \/ /\ \A n \in 1..Len(PriorityNames) : Database.s # PriorityNames[n]
     /\ Database.s # EmbeddedAlias

-----------------------------------------------------------------------------
(* C7 *)

\* C7 as stated: persistence 'local' and no server.jdbc.database always give the
\* internal postgres descriptor, whatever server.jdbc.url is.
C7_AsStated ==
  (DbDone /\ IsLocal /\ Blank(Database)) => result = postgres_internal

\* C7 amended: persistence 'local' and no server.jdbc.database give the internal
\* postgres descriptor when server.jdbc.url is unset or contains none of the six
\* database names; when the URL contains one of them the URL decides and the
\* result is a remote descriptor.
C7_LocalWithoutType ==
  (DbDone /\ IsLocal /\ Blank(Database)) =>
    IF Blank(Url) \/ NamesInUrl(Url.s) = {}
    THEN result = postgres_internal
    ELSE result # None /\ result.dbtype = ServerDatabaseType_remote

\* local, no database type, a URL that names no database: the fallback acted
C7_Witness ==
  /\ DbDone /\ IsLocal /\ Blank(Database)
  /\ Url = PyStr(<<"j","d","b","c",":">>)
  /\ result = postgres_internal

-----------------------------------------------------------------------------
(* C8 *)

\* C8: server.jdbc.database = 'postgres' with persistence 'local' gives the
\* internal postgres descriptor and never the remote one, whatever the JDBC URL
\* and whatever the iteration order of the registry.
C8_PostgresLocalIsInternal ==
  (DbDone /\ Database = PyStr(PostgresName) /\ IsLocal) =>
    /\ result = postgres_internal
    /\ result.dbtype = ServerDatabaseType_internal
    /\ ~EntryEq(postgres, result)

\* the registry yields the remote entry first and the URL names another database
C8_Witness ==
  /\ DbDone /\ Database = PyStr(PostgresName) /\ IsLocal
  /\ dbOrder[1] = postgres
  /\ Url = PyStr(MysqlName)
  /\ result = postgres_internal

-----------------------------------------------------------------------------
(* C9 *)

\* C9: when the explicit type gives nothing and the JDBC URL is set and contains,
\* in any letter case, one of the six names, the result is the remote descriptor
\* of the first contained name in the order postgres, oracle, mysql, mssql,
\* derby, sqlanywhere; so a URL with both 'mysql' and 'postgres' gives postgres.
C9_UrlPriority ==
  (DbDone /\ NoExplicitType /\ ~Blank(Url)) =>
    LET found == NamesInUrl(Url.s)
    IN  /\ found # {} =>
             result = RemoteDescriptor(
                        PriorityNames[CHOOSE n \in found : \A m \in found : n <= m])
        /\ ({1, 3} \subseteq found) => result = postgres

\* "MySQL" before "PostGRES" in the URL, resolved to postgres
C9_Witness ==
  /\ DbDone /\ NoExplicitType
  /\ Url = PyStr(<<"M","y","S","Q","L">> \o <<"P","o","s","t","G","R","E","S">>)
  /\ result = postgres

-----------------------------------------------------------------------------
(* C10 *)

\* C10: server.jdbc.database naming oracle, mysql, mssql, derby or sqlanywhere
\* gives that database's remote descriptor whatever the JDBC URL and the
\* persistence type are; and whenever the explicit step gives a descriptor, that
\* descriptor is the result (the URL and the local fallback are not consulted).
C10_ExplicitTypeWins ==
  DbDone =>
    /\ \A n \in 2..Len(PriorityNames) :
         Database = PyStr(PriorityNames[n]) => result = RemoteDescriptor(PriorityNames[n])
    /\ ~NoExplicitType => (result # None /\ result.name \in {Database.s, PostgresName})
    /\ (~NoExplicitType /\ Database.s # EmbeddedAlias) => result.name = Database.s

\* mysql asked for explicitly, persistence remote, a URL naming postgres
C10_Witness ==
  /\ DbDone /\ Database = PyStr(MysqlName)
  /\ Persistence = PyStr(<<"r","e","m","o","t","e">>)
  /\ Url = PyStr(PostgresName)
  /\ result = mysql

-----------------------------------------------------------------------------
(* C11 *)

\* C11: when neither the explicit type (server.jdbc.database unset or naming no
\* registry entry) nor the JDBC URL (unset or containing none of the six names)
\* gives a descriptor, the result is the internal postgres descriptor if
\* server.persistence.type is exactly 'local', and None otherwise; an absent
\* persistence type and 'LOCAL' are among the otherwise.
C11_FallbackOrNone ==
  (DbDone /\ NoExplicitType /\ (Blank(Url) \/ NamesInUrl(Url.s) = {})) =>
    /\ Persistence = PyStr(LocalLiteral) => result = postgres_internal
    /\ Persistence # PyStr(LocalLiteral) => result = None
    /\ Persistence \in {None, PyStr(<<"L","O","C","A","L">>)} => result = None

\* an unknown database type, a URL naming no database, persistence 'LOCAL':
\* nothing resolved
C11_Witness ==
  /\ DbDone
  /\ Database = PyStr(<<"b","o","g","u","s">>)
  /\ Url = PyStr(<<"j","d","b","c",":">>)
  /\ Persistence = PyStr(<<"L","O","C","A","L">>)
  /\ result = None

-----------------------------------------------------------------------------
(* vocabulary of the codec properties *)

\* the calls of one codec function, as positions in events
CodecCalls(fn) == {i \in 1..Len(events) : events[i].e = fn}

RECURSIVE NameRun(_, _)
\* how many characters of [\w\.] the text holds from position i on, up to the
\* first other character
NameRun(text, i) ==
  IF i > Len(text) \/ ~WordOrDot(text[i]) THEN 0 ELSE 1 + NameRun(text, i + 1)

\* the text begins with "${alias="
HasAliasPrefix(text) ==
  /\ Len(text) >= Len(AliasPrefix)
  /\ \A i \in 1..Len(AliasPrefix) : text[i] = AliasPrefix[i]

\* a non-empty name made of word characters and dots only
IsAliasName(v) ==
  IsStr(v) /\ v.s # <<>> /\ \A i \in 1..Len(v.s) : WordOrDot(v.s[i])

-----------------------------------------------------------------------------
(* C12 *)

\* C12 as stated: is_alias_string(text) is True exactly when text begins with
\* '${alias=' followed by one or more word characters or dots, whatever comes
\* after them.
C12_AsStated ==
  \A i \in CodecCalls("is_alias_string") :
    events[i].rc = PyBool(TRUE) <=>
      (HasAliasPrefix(events[i].alias.s)
         /\ NameRun(events[i].alias.s, Len(AliasPrefix) + 1) >= 1)

\* C12 amended: is_alias_string(text) is True exactly when text begins with
\* '${alias=', followed by one or more word characters or dots, followed by a
\* closing '}'; what comes after the '}' does not matter.
C12_PrefixNameBrace ==
  \A i \in CodecCalls("is_alias_string") :
    LET text == events[i].alias.s
        run == NameRun(text, Len(AliasPrefix) + 1)
    IN  events[i].rc = PyBool(TRUE) <=>
          /\ HasAliasPrefix(text)
          /\ run >= 1
          /\ Len(text) > Len(AliasPrefix) + run
          /\ text[Len(AliasPrefix) + run + 1] = "}"

\* "${alias=a7}-" was tested and found to be an alias string
C12_Witness ==
  \E i \in CodecCalls("is_alias_string") :
    /\ events[i].alias = PyStr(AliasPrefix \o <<"a","7","}","-">>)
    /\ events[i].rc = PyBool(TRUE)

-----------------------------------------------------------------------------
(* C13 *)

\* C13: for every non-empty name of word characters and dots,
\* get_alias_from_alias_string(get_alias_string(name)) is name, and
\* is_alias_string(get_alias_string(name)) is True.
C13_RoundTrip ==
  (Len(events) = 2 /\ events[1].e = "get_alias_string" /\ IsAliasName(events[1].alias)) =>
    /\ events[2].alias = events[1].rc
    /\ events[2].e = "get_alias_from_alias_string" => events[2].rc = events[1].alias
    /\ events[2].e = "is_alias_string" => events[2].rc = PyBool(TRUE)

\* "a7." was encoded and decoded back
C13_Witness ==
  /\ Len(events) = 2
  /\ events[1].e = "get_alias_string"
  /\ events[1].alias = PyStr(<<"a","7",".">>)
  /\ events[1].rc = PyStr(AliasPrefix \o <<"a","7",".","}">>)
  /\ events[2].e = "get_alias_from_alias_string"
  /\ events[2].rc = PyStr(<<"a","7",".">>)

-----------------------------------------------------------------------------
(* vocabulary of the properties-file properties *)

\* the positions in events of the effects of one kind
FsEvents(e) == {i \in 1..Len(events) : events[i].e = e}

\* the operations that call backup_file_in_temp before they write
BackingUp == {"update_properties", "update_properties_2"}

\* the operations that overwrite the properties file
Rewriting ==
  BackingUp \cup {"write_property", "update_database_name_property",
                  "update_ambari_properties"}

\* the overwrite at position i comes right after a backup attempt of the same
\* operation, made of the content that is overwritten and, when the copy
\* succeeded, kept in the temp directory
BackedUp(i) ==
  /\ i > 1
  /\ events[i - 1].e = "backup"
  /\ events[i - 1].caller = events[i].caller
  /\ events[i - 1].content = events[i].old
  /\ events[i - 1].rc = PyBool(TRUE) =>
       /\ events[i - 1].path \in DOMAIN tmpDir
       /\ tmpDir[events[i - 1].path] = events[i].old

-----------------------------------------------------------------------------
(* C14 *)

\* C14 as stated: every overwrite of the properties file, by update_properties,
\* update_properties_2, write_property, update_database_name_property or
\* update_ambari_properties, comes after a backup of the previous content was
\* made in the temp directory by the same operation (a copy that fails is not
\* held against the statement).
C14_AsStated ==
  \A i \in FsEvents("store") : events[i].caller \in Rewriting /\ BackedUp(i)

\* C14 amended: update_properties and update_properties_2 call
\* backup_file_in_temp before they overwrite the file, and when the copy
\* succeeds the backup holds the content that is overwritten; write_property,
\* update_database_name_property and update_ambari_properties overwrite the
\* file without any backup, and no backup is made by any other operation.
C14_BackupBeforeOverwrite ==
  /\ \A i \in FsEvents("store") :
       IF events[i].caller \in BackingUp
       THEN BackedUp(i)
       ELSE /\ events[i].caller \in Rewriting
            /\ i > 1 => events[i - 1].e # "backup"
  /\ \A i \in FsEvents("backup") : events[i].caller \in BackingUp

\* update_properties overwrote a file that had content, after copying that
\* content to the temp directory
C14_Witness ==
  \E i \in FsEvents("store") :
    /\ events[i].caller = "update_properties"
    /\ events[i].old # <<>>
    /\ events[i].old # events[i].content
    /\ events[i - 1].e = "backup"
    /\ events[i - 1].rc = PyBool(TRUE)
    /\ tmpDir[events[i - 1].path] = events[i].old

-----------------------------------------------------------------------------
(* C15 *)

\* the keys of the lines of a file, in file order
KeysOf(content) == [i \in 1..Len(content) |-> content[i][1]]

\* the value the dict d holds for key
DictValue(d, key) ==
  d.items[CHOOSE i \in 1..Len(d.items) : d.items[i][1] = key][2]

\* new holds the lines of old at their positions, those of the keys of the dict
\* d with the value of d and all others as they were, followed by the keys of
\* d that old did not hold, each once
UpdatedInPlace(old, new, d) ==
  /\ Len(new) >= Len(old)
  /\ \A i \in 1..Len(old) :
       /\ new[i][1] = old[i][1]
       /\ new[i][2] = IF old[i][1] \in DictKeys(d)
                      THEN str(DictValue(d, old[i][1])) ELSE old[i][2]
  /\ {new[i][1] : i \in (Len(old) + 1)..Len(new)} = DictKeys(d) \ Range(KeysOf(old))
  /\ Len(new) = Len(old) + Cardinality(DictKeys(d) \ Range(KeysOf(old)))
  /\ \A i \in (Len(old) + 1)..Len(new) : new[i][2] = str(DictValue(d, new[i][1]))

\* the calls that wrote the file: the positions of their return in events
Wrote(name) ==
  {i \in FsEvents("return") : /\ events[i].caller = name
                              /\ i > 1
                              /\ events[i - 1].e = "store"}

-----------------------------------------------------------------------------
(* C16 *)

\* C16: when update_properties(propertyMap) is given a map, finds the file,
\* reads it and returns 0, the file holds exactly the keys of propertyMap, each
\* once and with the value str(propertyMap[key]); the keys the file held before
\* and propertyMap does not hold are gone.
C16_ExactlyTheMap ==
  \A i \in FsEvents("return") :
    ( /\ events[i].caller = "update_properties"
      /\ events[i].arg.propertyMap # None
      /\ events[i].old # None
      /\ events[i].rc = PyInt(0) )
    => LET new == events[i].content.content
           d == events[i].arg.propertyMap
       IN  /\ Range(KeysOf(new)) = DictKeys(d)
           /\ Len(new) = Cardinality(DictKeys(d))
           /\ \A k \in 1..Len(new) : new[k][2] = str(DictValue(d, new[k][1]))

\* a file with a persistence type, a schema and a database type: the first two
\* removed, the type updated, the database name added as "7"
C16_Witness ==
  \E i \in FsEvents("return") :
    /\ events[i].caller = "update_properties"
    /\ events[i].rc = PyInt(0)
    /\ events[i].old # None
    /\ events[i].old.content =
         << <<PERSISTENCE_TYPE_PROPERTY, RemoteLiteral>>,
            <<JDBC_DATABASE_PROPERTY, PostgresName>>,
            <<JDBC_RCA_SCHEMA_PROPERTY, SchemaName>> >>
    /\ events[i].content.content =
         << <<JDBC_DATABASE_PROPERTY, OracleName>>,
            <<JDBC_DATABASE_NAME_PROPERTY, <<"7">> >> >>

-----------------------------------------------------------------------------
(* C17 *)

\* the decimal numerals of 1 to 9
Numerals == <<"1","2","3","4","5","6","7","8","9">>

\* the name "ambari.properties.<n>" for n in 1..9
Numbered(n) ==
  <<"a","m","b","a","r","i",".","p","r","o","p","e","r","t","i","e","s",".">>
    \o <<Numerals[n]>>

\* how many files of the directory have a name beginning with "ambari.properties"
Counted(dir) ==
  Cardinality({f \in DOMAIN dir :
                 /\ Len(f) >= 17
                 /\ SubSeq(f, 1, 17) =
                      <<"a","m","b","a","r","i",".","p","r","o","p","e","r","t","i","e","s">>})

\* C17: whenever an operation changes the temp directory, it adds exactly one
\* file, named ambari.properties.<n> with n the number of files whose name
\* begins with ambari.properties plus one; the file holds the content the
\* properties file had, n is greater than the number of every numbered backup
\* already there, and every file already there is left as it was.
C17_BackupNumbers ==
  [][ tmpDir' # tmpDir =>
        LET n == Counted(tmpDir) + 1
        IN  /\ n <= Len(Numerals)
            /\ Numbered(n) \notin DOMAIN tmpDir
            /\ DOMAIN tmpDir' = DOMAIN tmpDir \cup {Numbered(n)}
            /\ tmpDir'[Numbered(n)] = confFile.content
            /\ \A f \in DOMAIN tmpDir : tmpDir'[f] = tmpDir[f]
            /\ \A k \in 1..Len(Numerals) : Numbered(k) \in DOMAIN tmpDir => k < n
            /\ Len(events') > Len(events)
            /\ events'[Len(events) + 1].e = "backup"
            /\ events'[Len(events) + 1].caller \in BackingUp
            /\ events'[Len(events) + 1].path = Numbered(n)
    ]_vars

\* a directory that held ambari.properties.1 and ambari.properties.bak: two
\* backups were added as .3 and .4 and the first backup is as it was
C17_Witness ==
  /\ \E i, j \in FsEvents("backup") :
       /\ i < j
       /\ events[i].rc = PyBool(TRUE) /\ events[i].path = Numbered(3)
       /\ events[j].rc = PyBool(TRUE) /\ events[j].path = Numbered(4)
  /\ DOMAIN tmpDir = DOMAIN UsedTmpDir \cup {Numbered(3), Numbered(4)}
  /\ tmpDir[Numbered(1)] = UsedTmpDir[Numbered(1)]

-----------------------------------------------------------------------------
(* C18 *)

\* the operations that look for the properties file with find_properties_file
ThroughFind ==
  {"find_properties_file", "get_ambari_properties", "write_property",
   "encrypt_password", "check_database_name_property",
   "update_database_name_property"}

\* C18: when ambari.properties is not found, a call of find_properties_file,
\* get_ambari_properties, write_property, encrypt_password,
\* check_database_name_property or update_database_name_property ends with
\* FatalException of code 1, and it creates and changes no file: the
\* properties file is still absent, the temp directory is as it was, and the
\* call has no effect but its failure.
C18_NotFoundIsFatal ==
  [][ ( /\ confFile = None
        /\ events' # events
        /\ events'[Len(events')].caller \in ThroughFind )
      => /\ result' = [t |-> "FatalException", code |-> 1]
         /\ events'[Len(events')].rc = result'
         /\ confFile' = None
         /\ tmpDir' = tmpDir
         /\ Len(events') = Len(events) + 1
    ]_vars

\* write_property was called without a properties file and raised
C18_Witness ==
  /\ events # <<>>
  /\ events[Len(events)].e = "return"
  /\ events[Len(events)].caller = "write_property"
  /\ events[Len(events)].old = None
  /\ events[Len(events)].rc = [t |-> "FatalException", code |-> 1]
  /\ confFile = None

-----------------------------------------------------------------------------
(* C19 *)

\* the value of key in the lines of a file, None when the key is absent
ValueIn(content, key) ==
  IF \E i \in 1..Len(content) : content[i][1] = key
  THEN PyStr(content[CHOOSE i \in 1..Len(content) : content[i][1] = key][2])
  ELSE None

\* the lines of a file without those of one key
Without(content, key) == SelectSeq(content, LAMBDA kv : kv[1] # key)

SixNames ==
  { <<"p","o","s","t","g","r","e","s">>, <<"o","r","a","c","l","e">>,
    <<"m","y","s","q","l">>, <<"m","s","s","q","l">>, <<"d","e","r","b","y">>,
    <<"s","q","l","a","n","y","w","h","e","r","e">> }

\* the upgrade migration applies to the file: the database type is no database
\* name of the registry, or server.jdbc.schema is present
MigrationApplies(content) ==
  \/ ValueIn(content, "server.jdbc.database") = None
  \/ ValueIn(content, "server.jdbc.database").s \notin SixNames
  \/ ValueIn(content, "server.jdbc.schema") # None

\* the database name the upgrade migration writes, None when it writes none
MigratedName(content) ==
  IF ~MigrationApplies(content) THEN None
  ELSE IF ValueIn(content, "server.persistence.type") = PyStr(<<"r","e","m","o","t","e">>)
       THEN ValueIn(content, "server.jdbc.schema")
  ELSE IF /\ ValueIn(content, "server.persistence.type") = PyStr(<<"l","o","c","a","l">>)
          /\ ~Blank(ValueIn(content, "server.jdbc.database"))
       THEN ValueIn(content, "server.jdbc.database")
  ELSE None

\* the returns of one operation called on a properties file that can be read
ReturnsOn(name) ==
  {i \in FsEvents("return") : /\ events[i].caller = name
                              /\ events[i].old # None
                              /\ events[i].old.readable}

NameBefore(i) == ValueIn(events[i].old.content, "server.jdbc.database_name")
NameAfter(i) == ValueIn(events[i].content.content, "server.jdbc.database_name")

\* C19 as stated: check_database_name_property, when its migration has run to
\* its end, raises FatalException(-1) if server.jdbc.database_name is absent or
\* empty; and when update_database_name_property returns normally on a
\* readable file, the name in the file is not empty, a name that was not empty
\* is as it was, and without migration every other line is as it was.
C19_AsStated ==
  /\ \A i \in ReturnsOn("check_database_name_property") :
       (events[i].rc # AttributeError /\ Blank(NameAfter(i))) =>
         events[i].rc = FatalException(-1)
  /\ \A i \in ReturnsOn("update_database_name_property") :
       events[i].rc = None =>
         /\ ~Blank(NameAfter(i))
         /\ ~Blank(NameBefore(i)) => NameAfter(i) = NameBefore(i)
         /\ ~(events[i].arg.upgrade /\ MigrationApplies(events[i].old.content)) =>
              Without(events[i].content.content, "server.jdbc.database_name")
                = Without(events[i].old.content, "server.jdbc.database_name")

\* C19 amended: on a readable file check_database_name_property returns
\* normally only with a non-empty name in the file, raises FatalException(-1)
\* when its migration ran to its end and the name is absent or empty, and
\* otherwise fails with AttributeError (an upgrade of a remote setup whose
\* database type get_db_type cannot resolve).  When
\* update_database_name_property returns normally, the name in the file is the
\* one the upgrade migration wrote if it wrote one (the schema of a remote
\* setup, the old database value of a local one, replacing a name already
\* there), else the name that was there if it was not empty, else 'ambari';
\* and without migration every other line is as it was.
C19_NameAfterUpdate ==
  /\ \A i \in ReturnsOn("check_database_name_property") :
       /\ events[i].rc \in {None, FatalException(-1), AttributeError}
       /\ events[i].rc = None => ~Blank(NameAfter(i))
       /\ events[i].rc = FatalException(-1) => Blank(NameAfter(i))
       /\ events[i].rc = AttributeError =>
            /\ events[i].arg.upgrade
            /\ MigrationApplies(events[i].old.content)
            /\ ValueIn(events[i].old.content, "server.persistence.type")
                 = PyStr(<<"r","e","m","o","t","e">>)
            /\ ValueIn(events[i].old.content, "server.jdbc.url") = None
  /\ \A i \in ReturnsOn("update_database_name_property") :
       /\ events[i].rc \in {None, AttributeError}
       /\ events[i].rc = None =>
            LET written == IF events[i].arg.upgrade
                           THEN MigratedName(events[i].old.content) ELSE None
            IN  /\ ~Blank(NameAfter(i))
                /\ NameAfter(i) =
                     IF ~Blank(written) THEN written
                     ELSE IF ~Blank(NameBefore(i)) THEN NameBefore(i)
                     ELSE PyStr(<<"a","m","b","a","r","i">>)
                /\ ~(events[i].arg.upgrade /\ MigrationApplies(events[i].old.content)) =>
                     Without(events[i].content.content, "server.jdbc.database_name")
                       = Without(events[i].old.content, "server.jdbc.database_name")

\* an upgrade of a remote setup with the schema 'sch' and the name 'foo': the
\* name is 'sch' afterwards; and a file without a name got 'ambari'
C19_Witness ==
  \E i \in ReturnsOn("update_database_name_property") :
    /\ events[i].rc = None
    /\ events[i].arg.upgrade
    /\ NameBefore(i) = PyStr(<<"f","o","o">>)
    /\ ValueIn(events[i].old.content, "server.jdbc.schema") = PyStr(<<"s","c","h">>)
    /\ NameAfter(i) = PyStr(<<"s","c","h">>)

-----------------------------------------------------------------------------
(* C20 *)

\* the positions in events of the effects of one kind in the credential workflow
At(e) == {i \in 1..Len(events) : events[i].e = e}

\* the prompt loop of get_original_master_key was entered and is not running
LoopLeft ==
  /\ At("prompt") \cup At("exit") # {}
  /\ pc \notin {"prompt", "validated"}
  /\ ~(pc \in {"read", "read_run", "read_finish"}
         /\ rd.caller = "get_original_master_key")

\* C20: the prompt loop of get_original_master_key is left in exactly two ways:
\* with one accepted key, which is the key returned, or by the interrupt, which
\* ends the run with exit status 1 as its last effect, no key being accepted or
\* returned and no subprocess run afterwards.  A rejected candidate leads back
\* to the prompt whatever the number of rejections before it, and between its
\* prompt and its rejection the GET subprocess ran exactly once, with that
\* candidate.
C20_PromptLoop ==
  /\ LoopLeft => (Cardinality(At("accept")) = 1 <=> At("exit") = {})
  /\ Cardinality(At("accept")) <= 1
  /\ \A i \in At("accept") :
       /\ \A j \in (i + 1)..Len(events) : events[j].e \notin {"prompt", "reject", "exit"}
       /\ (pc = "key_returned" \/ LoopLeft) => masterKey = events[i].key
  /\ \A i \in At("exit") :
       /\ i = Len(events)
       /\ events[i].rc = PyInt(1)
  /\ exitStatus # None <=> At("exit") # {}
  /\ exitStatus # None =>
       /\ exitStatus = PyInt(1)
       /\ pc = "exited"
       /\ At("accept") = {}
       /\ result = None
  /\ \A i \in At("reject") :
       /\ i = Len(events) => pc = "prompt"
       /\ i < Len(events) => events[i + 1].e \in {"prompt", "exit"}
       /\ \E p \in At("prompt") :
            /\ p < i
            /\ events[p].key = events[i].key
            /\ \A q \in At("prompt") : ~(p < q /\ q < i)
            /\ Cardinality({g \in At("GET") : p < g /\ g < i}) = 1
            /\ \A g \in At("GET") : (p < g /\ g < i) =>
                 /\ events[g].key = events[i].key
                 /\ events[g].caller = "get_original_master_key"

\* as many candidates rejected as prompts are explored, one GET for each, and
\* then the interrupt
C20_Witness ==
  /\ Cardinality(At("reject")) = MaxPrompts
  /\ Cardinality(At("GET")) = MaxPrompts
  /\ exitStatus = PyInt(1)
  /\ pc = "exited"
  /\ events[Len(events)].e = "exit"

-----------------------------------------------------------------------------
(* C21 *)

\* the entries of the registry that compare equal to the string s
EqualEntries(s) == {e \in Range(dbOrder) : EntryEq(e, PyStr(s))}

\* C21 as stated: at most one entry of the registry compares equal to the value
\* of server.jdbc.database, so match and get_db_type give the same descriptor
\* under every iteration order of the registry; server.jdbc.database =
\* 'postgres' with a persistence type other than 'local' gives the remote
\* postgres descriptor.
C21_AsStated ==
  (DbDone /\ IsStr(Database)) =>
    /\ Cardinality(EqualEntries(Database.s)) <= 1
    /\ \A order \in RegistryOrders :
         /\ match(Database, order) = match(Database, dbOrder)
         /\ get_db_type(properties, order) = result
    /\ (Database = PyStr(PostgresName) /\ ~IsLocal) => result = postgres

-----------------------------------------------------------------------------
(* C22 *)

\* the identifier the alias pattern matches in a text that begins with the prefix
MatchedName(text) ==
  SubSeq(text, Len(AliasPrefix) + 1, Len(AliasPrefix) + NameRun(text, Len(AliasPrefix) + 1))

\* C22 as stated: for every text that is_alias_string accepts,
\* get_alias_from_alias_string(text) is the identifier the pattern matched, made
\* of word characters and dots only, and get_alias_string applied to it gives
\* the text back.
C22_AsStated ==
  \A i \in CodecCalls("get_alias_from_alias_string") :
    is_alias_string(events[i].alias.s) =>
      /\ events[i].rc = PyStr(MatchedName(events[i].alias.s))
      /\ IsAliasName(events[i].rc)
      /\ (i < Len(events) /\ events[i + 1].e = "get_alias_string") =>
           events[i + 1].rc = events[i].alias

-----------------------------------------------------------------------------
(* C23 *)

\* C23 as stated: when one of the three properties holds an alias-encoded
\* value, a non-empty candidate is accepted by get_original_master_key only
\* after a GET subprocess that ran with that candidate, exited with code 0 and
\* left non-empty content; no candidate is accepted when no JDK is found.
C23_AsStated ==
  \A i \in At("accept") :
    (AliasEncoded # {} /\ Truthy(events[i].key)) =>
      /\ jdkPath # None
      /\ \E g \in GetsBy("get_original_master_key") :
           /\ g < i
           /\ \A q \in At("prompt") : q < i => q < g
           /\ events[g].key = events[i].key
           /\ events[g].rc = PyInt(0)
           /\ Truthy(events[g].arg)

-----------------------------------------------------------------------------
(* C24 *)

InEncrypt == call.name = "get_encrypted_password"

\* the PUT subprocess ran for the arguments of the call and exited with code 0
PutSucceeded ==
  \E i \in At("PUT") :
    /\ events[i].alias = call.alias
    /\ events[i].arg = call.passwd
    /\ events[i].rc = PyInt(0)

\* the value returned is '${alias=<alias>}' for the alias of the call
AliasStringReturned ==
  /\ IsStr(call.alias)
  /\ result = PyStr(AliasPrefix \o call.alias.s \o <<"}">>)

\* C24: get_encrypted_password returns the alias string '${alias=<alias>}' if
\* and only if encryption is enabled and the PUT subprocess ran and exited with
\* code 0; whenever it returns in another case (encryption disabled, an empty
\* alias or password, no JDK, a nonzero exit code) it returns the password it
\* was given; with encryption disabled there is no prompt and no subprocess.
C24_EncryptedPassword ==
  InEncrypt =>
    /\ pc = "done" =>
         /\ AliasStringReturned <=> (~EncryptionDisabled /\ PutSucceeded)
         /\ ~AliasStringReturned => result = call.passwd
         /\ ( \/ EncryptionDisabled
              \/ ~Truthy(call.alias)
              \/ ~Truthy(call.passwd)
              \/ jdkPath = None
              \/ \E i \in At("PUT") : events[i].rc # PyInt(0) ) => result = call.passwd
         /\ (EncryptionDisabled \/ ~Truthy(call.alias) \/ ~Truthy(call.passwd)
               \/ jdkPath = None) => At("PUT") = {}
    /\ Cardinality(At("PUT")) <= 1
    /\ EncryptionDisabled =>
         /\ At("prompt") \cup At("GET") \cup At("PUT") \cup At("tmp_create") = {}
         /\ pc \in {"encrypt", "done"}
         /\ exitStatus = None

\* no key file: a key was typed and accepted, the PUT ran with it and exited
\* with code 0, and the alias string was returned
C24_Witness ==
  /\ InEncrypt /\ pc = "done"
  /\ masterKeyFile = None
  /\ At("accept") # {}
  /\ \E i \in At("PUT") : events[i].rc = PyInt(0) /\ events[i].key = masterKey
  /\ call.passwd = PyStr(<<"p","w">>)
  /\ result = PyStr(AliasPrefix \o <<"m","y",".","a","l","i","a","s","}">>)

====
